---- MODULE Spec2Model ----
(***************************************************************************)
(* Model of the REST API client of terraform-provider-restapi:             *)
(* internal/apiclient/api_client.go (NewAPIClient, SendRequest and the     *)
(* token-bucket limiter they drive).  Strings whose characters matter      *)
(* (URIs, paths, response bodies, the XSSI prefix) are sequences of        *)
(* one-character strings; strings that are only compared are TLA+ strings. *)
(***************************************************************************)
EXTENDS Integers, Sequences, FiniteSets, TLC

VARIABLES
    pc,        \* "new" before NewAPIClient, "ready", "noclient", "dead"
    given,     \* the ApiClientOpt as the caller filled it in
    opt,       \* the ApiClientOpt (NewAPIClient writes its defaults into it)
    client,    \* the APIClient, or NoClient (nil)
    newErr,    \* the error returned by NewAPIClient ("nil" for none)
    limiter,   \* client.RateLimiter: [limit, burst, tokens, last]
    now,       \* the clock, in ticks
    wire,      \* the HTTP requests the last SendRequest put on the network
    res,       \* what the last SendRequest returned: [body, err, ...]
    calls,     \* number of SendRequest calls started
    sent,      \* number of API requests dispatched (HttpClient.Do calls)
    firstAt,   \* time of the first dispatch (-1: none yet)
    lastAt,    \* time of the last dispatch (-1: none yet)
    doneAt,    \* time the last SendRequest returned (-1: none yet)
    timeouts,  \* number of SendRequest calls the client timeout ended
    tf,        \* the provider and its tenant resource: configuration,
               \* diagnostics, Terraform state (NoTf when only the client runs)
    callers,   \* the goroutines inside SendRequest at the same time, each with
               \* its position in the function (<<>> when calls come one by one)
    log        \* the dispatches of those goroutines, in the order they happened

vars == <<pc, given, opt, client, newErr, limiter, now, wire, res, calls,
          sent, firstAt, lastAt, doneAt, timeouts, tf,
          callers, log>>

-----------------------------------------------------------------------------
(* Bounds *)

\* SendRequest calls followed on one client
MaxCalls == 4
\* the clock stops being observed after this many ticks
MaxTime == 16

\* longest response body
MaxBody == 2

\* clock ticks per second
TicksPerSec == 2

-----------------------------------------------------------------------------
(* strings package *)

HasSuffix(s, suffix) ==
    /\ Len(s) >= Len(suffix)
    /\ SubSeq(s, Len(s) - Len(suffix) + 1, Len(s)) = suffix

HasPrefix(s, prefix) ==
    /\ Len(s) >= Len(prefix)
    /\ SubSeq(s, 1, Len(prefix)) = prefix

\* strings.TrimSuffix: s without the suffix when s ends with it, else s
TrimSuffix(s, suffix) ==
    IF HasSuffix(s, suffix) THEN SubSeq(s, 1, Len(s) - Len(suffix)) ELSE s

\* TrimPrefix that goes on removing the prefix while s starts with it
RECURSIVE TrimPrefixRepeated(_, _)
TrimPrefixRepeated(s, prefix) ==
    IF prefix # <<>> /\ HasPrefix(s, prefix)
    THEN TrimPrefixRepeated(SubSeq(s, Len(prefix) + 1, Len(s)), prefix)
    ELSE s

\* strings.TrimPrefix: s without the prefix when s starts with it, else s
TrimPrefix(s, prefix) ==
    IF HasPrefix(s, prefix) THEN SubSeq(s, Len(prefix) + 1, Len(s)) ELSE s

Slash == <<"/">>

-----------------------------------------------------------------------------
(* Values *)

NoClient == [nil |-> TRUE]
NoJwt == [nil |-> TRUE]
NoOauth == [nil |-> TRUE]
NoLimiter == [nil |-> TRUE]
\* no provider around the client
NoTf == [nil |-> TRUE]

\* a rate in requests per second, as the fraction num/den
Rate(num, den) == [num |-> num, den |-> den]

\* math.Round of the non-negative fraction num/den: half rounds away from 0
Round(r) == (2 * r.num + r.den) \div (2 * r.den)

Max(a, b) == IF a >= b THEN a ELSE b
Min(a, b) == IF a <= b THEN a ELSE b

\* bucketSize := int(math.Max(math.Round(opt.RateLimit), 1))
BucketSize(r) == Max(Round(r), 1)

\* Ticks the bucket needs to earn one token at rate r > 0
Period(r) == (TicksPerSec * r.den) \div r.num

\* the zero value of ApiClientOpt, with the URI and rate limit of the test
DefaultOpt ==
    [ Uri           |-> <<"h">>,
      Jwt           |-> NoJwt,
      Username      |-> "",
      Password      |-> "",
      Headers       |-> <<>>,
      Timeout       |-> 2,
      IdAttribute   |-> "",
      CreateMethod  |-> "",
      ReadMethod    |-> "",
      UpdateMethod  |-> "",
      DestroyMethod |-> "",
      XssiPrefix    |-> <<>>,
      RateLimit     |-> Rate(1, 1),
      OauthClientID     |-> "",
      OauthClientSecret |-> "",
      OauthTokenURL     |-> "",
      CertFile      |-> "",
      KeyFile       |-> "",
      RootCaFile    |-> "",
      CertString    |-> "",
      KeyString     |-> "",
      RootCaString  |-> "" ]

-----------------------------------------------------------------------------
(* crypto/tls and crypto/x509 as NewAPIClient uses them.  Material is      *)
(* "" (not supplied), "good" (well formed; for a file: readable and well   *)
(* formed), "bad" (malformed) or, for a file, "missing" (unreadable).      *)

Material == {"", "good", "bad"}
FileMaterial == {"", "good", "bad", "missing"}

\* tls.X509KeyPair / tls.LoadX509KeyPair succeed on a well-formed pair
KeyPairLoads(cert, key) == cert = "good" /\ key = "good"

\* os.ReadFile succeeds on every file but a missing one
FileReads(file) == file # "missing"

\* caCertPool.AppendCertsFromPEM succeeds on well-formed PEM
PemAppends(pem) == pem = "good"

-----------------------------------------------------------------------------
(* NewAPIClient *)

\* WithDefaults with the read verb set whether or not one was given
WithDefaultsReadForced(o) ==
    [o EXCEPT
        !.IdAttribute   = IF o.IdAttribute = "" THEN "id" ELSE o.IdAttribute,
        !.Uri           = TrimSuffix(o.Uri, Slash),
        !.CreateMethod  = IF o.CreateMethod = "" THEN "POST" ELSE o.CreateMethod,
        !.ReadMethod    = "GET",
        !.UpdateMethod  = IF o.UpdateMethod = "" THEN "PUT" ELSE o.UpdateMethod,
        !.DestroyMethod = IF o.DestroyMethod = "" THEN "DELETE" ELSE o.DestroyMethod]

\* the defaults NewAPIClient writes into *opt (lines 122-142)
WithDefaults(o) ==
    [o EXCEPT
        !.IdAttribute   = IF o.IdAttribute = "" THEN "id" ELSE o.IdAttribute,
        !.Uri           = TrimSuffix(o.Uri, Slash),
        !.CreateMethod  = IF o.CreateMethod = "" THEN "POST" ELSE o.CreateMethod,
        !.ReadMethod    = IF o.ReadMethod = "" THEN "GET" ELSE o.ReadMethod,
        !.UpdateMethod  = IF o.UpdateMethod = "" THEN "PUT" ELSE o.UpdateMethod,
        !.DestroyMethod = IF o.DestroyMethod = "" THEN "DELETE" ELSE o.DestroyMethod]

\* TlsError with the result of AppendCertsFromPEM ignored
TlsErrorAppendIgnored(o) ==
    IF o.CertString # "" /\ o.KeyString # "" /\ ~KeyPairLoads(o.CertString, o.KeyString)
    THEN "x509 key pair"
    ELSE IF o.CertFile # "" /\ o.KeyFile # "" /\ ~KeyPairLoads(o.CertFile, o.KeyFile)
    THEN "x509 key pair file"
    ELSE IF o.RootCaFile # "" /\ ~FileReads(o.RootCaFile)
    THEN "could not read root CA file"
    ELSE "nil"

\* the first error met while the TLS configuration is assembled, "nil" if none
TlsError(o) ==
    IF o.CertString # "" /\ o.KeyString # "" /\ ~KeyPairLoads(o.CertString, o.KeyString)
    THEN "x509 key pair"
    ELSE IF o.CertFile # "" /\ o.KeyFile # "" /\ ~KeyPairLoads(o.CertFile, o.KeyFile)
    THEN "x509 key pair file"
    ELSE IF o.RootCaFile # "" /\ ~FileReads(o.RootCaFile)
    THEN "could not read root CA file"
    ELSE IF o.RootCaFile # "" /\ ~PemAppends(o.RootCaFile)
    THEN "failed to append root CA certificate"
    ELSE IF o.RootCaFile = "" /\ o.RootCaString # "" /\ ~PemAppends(o.RootCaString)
    THEN "failed to append root CA certificate"
    ELSE "nil"

\* tlsConfig: which client certificate and which root pool the client uses
TlsConfig(o) ==
    [ Certificates |->
          IF o.CertFile # "" /\ o.KeyFile # "" THEN "file"
          ELSE IF o.CertString # "" /\ o.KeyString # "" THEN "string"
          ELSE "none",
      RootCAs |->
          IF o.RootCaFile # "" THEN "file"
          ELSE IF o.RootCaString # "" THEN "string"
          ELSE "system" ]

\* rate.NewLimiter(rateLimit, bucketSize): the bucket starts full.  tokens is
\* counted in ticks of refill (Period ticks make one token); a limit of zero
\* never refills and the library then counts what is left of the burst.
NewLimiter(r) ==
    [ limit  |-> r,
      burst  |-> BucketSize(r),
      tokens |-> IF r.num = 0 THEN 0 ELSE BucketSize(r) * Period(r),
      last   |-> 0 ]

\* the APIClient value of lines 208-244 built from the defaulted options
ClientOf(o) ==
    [ Uri           |-> o.Uri,
      Jwt           |-> o.Jwt,
      Username      |-> o.Username,
      Password      |-> o.Password,
      Headers       |-> o.Headers,
      Timeout       |-> o.Timeout,
      IdAttribute   |-> o.IdAttribute,
      CreateMethod  |-> o.CreateMethod,
      ReadMethod    |-> o.ReadMethod,
      UpdateMethod  |-> o.UpdateMethod,
      DestroyMethod |-> o.DestroyMethod,
      XssiPrefix    |-> o.XssiPrefix,
      Tls           |-> TlsConfig(o),
      OauthConfig   |->
          IF o.OauthClientID # "" /\ o.OauthClientSecret # "" /\ o.OauthTokenURL # ""
          THEN [ ClientID     |-> o.OauthClientID,
                 ClientSecret |-> o.OauthClientSecret,
                 TokenURL     |-> o.OauthTokenURL ]
          ELSE NoOauth ]

\* NewAPIClient(o): the error and the client it returns, the options as it
\* leaves them and the limiter of the client
NewAPIClientOutcome(o) ==
    IF o.Uri = <<>>
    THEN [ err |-> "uri must be set to construct an API client",
           client |-> NoClient, opt |-> o, limiter |-> NoLimiter, pc |-> "noclient" ]
    ELSE LET d == WithDefaults(o) IN
         IF TlsError(d) # "nil"
         THEN [ err |-> TlsError(d), client |-> NoClient, opt |-> d,
                limiter |-> NoLimiter, pc |-> "noclient" ]
         ELSE [ err |-> "nil", client |-> ClientOf(d), opt |-> d,
                limiter |-> NewLimiter(d.RateLimit), pc |-> "ready" ]

NewAPIClient ==
    /\ pc = "new"
    /\ IF tf = NoTf THEN TRUE ELSE tf.kind = "tenant"
    /\ LET n == NewAPIClientOutcome(opt) IN
       /\ opt' = n.opt
       /\ newErr' = n.err
       /\ client' = n.client
       /\ limiter' = n.limiter
       /\ pc' = n.pc
    /\ UNCHANGED <<given, now, wire, res, calls, sent, firstAt, lastAt, doneAt,
                   timeouts, tf,
                   callers, log>>

-----------------------------------------------------------------------------
(* net/http as SendRequest uses it *)

\* Canonical that leaves the name as it was written
CanonicalAsWritten(name) == name

\* textproto.CanonicalMIMEHeaderKey, which Header.Set applies to the name
Canonical(name) ==
    CASE name = "authorization" -> "Authorization"
      [] name = "AUTHORIZATION" -> "Authorization"
      [] name = "content-type"  -> "Content-Type"
      [] name = "Content-type"  -> "Content-Type"
      [] OTHER -> name

\* header values: a configured text, a bearer token or basic credentials
NoTok == [alg |-> "", claims |-> <<>>, secret |-> ""]
Raw(v) == [scheme |-> "raw", text |-> v, tok |-> NoTok, user |-> "", pass |-> ""]
BearerJwt(t) == [scheme |-> "Bearer", text |-> "", tok |-> t, user |-> "", pass |-> ""]
BearerText(v) == [scheme |-> "Bearer", text |-> v, tok |-> NoTok, user |-> "", pass |-> ""]
Basic(u, p) == [scheme |-> "Basic", text |-> "", tok |-> NoTok, user |-> u, pass |-> p]

\* req.Header.Set(n, v)
HeaderSet(h, n, v) ==
    [k \in DOMAIN h \cup {Canonical(n)} |-> IF k = Canonical(n) THEN v ELSE h[k]]

\* the orders in which `range client.Headers` may visit the map
Orders(S) ==
    {f \in [1..Cardinality(S) -> S] : \A i, j \in 1..Cardinality(S) : f[i] = f[j] => i = j}

\* for n, v := range client.Headers { req.Header.Set(n, v) }, in one order
RECURSIVE SetAll(_, _, _, _)
SetAll(h, headers, order, i) ==
    IF i > Len(order) THEN h
    ELSE SetAll(HeaderSet(h, order[i], Raw(headers[order[i]])), headers, order, i + 1)

\* methods http.NewRequest accepts: a token without spaces; "" means GET
ValidMethod(m) == m \notin {"BAD METHOD"}

\* URIs url.Parse accepts: no malformed percent escape
ValidUrl(u) == \A i \in 1..Len(u) : u[i] # "%"

-----------------------------------------------------------------------------
(* JWT *)

\* CompleteClaimValidityTime that leaves a configured exp in place
CompleteClaimValidityTimeExpKept(jwt, t) ==
    IF jwt.ValidityDurationMinute > 0
    THEN LET epoch == t \div TicksPerSec IN
         [jwt EXCEPT !.Claims =
             [k \in DOMAIN jwt.Claims \cup {"nbf", "iat", "exp"} |->
                 CASE k = "nbf" -> epoch
                   [] k = "iat" -> epoch
                   [] k = "exp" /\ k \notin DOMAIN jwt.Claims ->
                        epoch + jwt.ValidityDurationMinute * 60
                   [] OTHER -> jwt.Claims[k]]]
    ELSE jwt

\* jwt.completeClaimValidityTime: writes nbf, iat and exp into jwt.Claims
CompleteClaimValidityTime(jwt, t) ==
    IF jwt.ValidityDurationMinute > 0
    THEN LET epoch == t \div TicksPerSec IN
         [jwt EXCEPT !.Claims =
             [k \in DOMAIN jwt.Claims \cup {"nbf", "iat", "exp"} |->
                 CASE k = "nbf" -> epoch
                   [] k = "iat" -> epoch
                   [] k = "exp" -> epoch + jwt.ValidityDurationMinute * 60
                   [] OTHER -> jwt.Claims[k]]]
    ELSE jwt

\* jwtgen.GetSigningMethod: nil for a name that is not registered
KnownAlgorithm(alg) == alg \in {"HS256", "HS384", "HS512", "RS256", "none"}
\* token.SignedString(secret []byte) succeeds for the HMAC methods only
HmacAlgorithm(alg) == alg \in {"HS256", "HS384", "HS512"}

\* jwt.getSignedJwt: the signed token (its inputs stand for the string), or
\* NoTok with the error that SendRequest drops
GetSignedJwt(jwt) ==
    IF HmacAlgorithm(jwt.Algortithm)
    THEN [alg |-> jwt.Algortithm, claims |-> jwt.Claims, secret |-> jwt.Secret]
    ELSE NoTok

-----------------------------------------------------------------------------
(* rate.Limiter *)

\* LimiterWait that books the token but returns without sleeping
LimiterWaitNoSleep(lim, t) ==
    IF lim.burst < 1
    THEN [ok |-> FALSE, wait |-> 0, lim |-> lim]
    ELSE IF lim.limit.num = 0
    THEN [ok |-> TRUE, wait |-> 0, lim |-> [lim EXCEPT !.burst = @ - 1]]
    ELSE LET full == lim.burst * Period(lim.limit)
             have == Min(full, lim.tokens + (t - lim.last))
             left == have - Period(lim.limit)
         IN [ok |-> TRUE, wait |-> 0,
             lim |-> [lim EXCEPT !.tokens = left, !.last = t]]

\* lim.Wait(context.Background()): [ok, wait, lim] - whether a token was
\* granted, the ticks slept before returning, and the limiter afterwards
LimiterWait(lim, t) ==
    IF lim.burst < 1
    THEN [ok |-> FALSE, wait |-> 0, lim |-> lim]
    ELSE IF lim.limit.num = 0
    THEN [ok |-> TRUE, wait |-> 0, lim |-> [lim EXCEPT !.burst = @ - 1]]
    ELSE LET full == lim.burst * Period(lim.limit)
             have == Min(full, lim.tokens + (t - lim.last))
             left == have - Period(lim.limit)
         IN [ok |-> TRUE,
             wait |-> IF left < 0 THEN 0 - left ELSE 0,
             lim |-> [lim EXCEPT !.tokens = left, !.last = t]]

-----------------------------------------------------------------------------
(* SendRequest *)

NoErr == [kind |-> "nil", code |-> 0, body |-> <<>>]
\* fmt.Errorf("unexpected response code '%d': %s", resp.StatusCode, body)
StatusErr(code, body) == [kind |-> "status", code |-> code, body |-> body]
Err(kind) == [kind |-> kind, code |-> 0, body |-> <<>>]

EmptyObject == <<"{", "}">>

\* what the transport can answer to one HttpClient.Do
TransportError == [kind |-> "error", status |-> 0, raw |-> <<>>, readOk |-> FALSE]
Response(status, raw, readOk) ==
    [kind |-> "resp", status |-> status, raw |-> raw, readOk |-> readOk]
\* the endpoint accepts the request and never responds
Hang == [kind |-> "hang", status |-> 0, raw |-> <<>>, readOk |-> FALSE]
\* a redirect response with a Location, and what the location answers next
Redirect(status, location, next) ==
    [ kind |-> "redirect", status |-> status, raw |-> <<>>, readOk |-> TRUE,
      location |-> location, next |-> next ]
\* no HttpClient.Do was made
NoAnswer == [kind |-> "none", status |-> 0, raw |-> <<>>, readOk |-> FALSE]

\* one HTTP request on the network; granted: Wait returned nil before it
ApiRequest(method, uri, header, data, granted) ==
    [ kind |-> "api", granted |-> granted, method |-> method, uri |-> uri,
      header |-> header, hasBody |-> data # "", body |-> data ]
\* the POST of the client-credentials grant to the token endpoint
TokenRequest ==
    [ kind |-> "token", granted |-> FALSE, method |-> "POST", uri |-> <<"t">>,
      header |-> <<>>, hasBody |-> TRUE, body |-> "grant" ]

\* the value a SendRequest call leaves in res
Result(ret, body, err, method, path, data, tr, got) ==
    [ ret |-> ret, body |-> body, err |-> err,
      method |-> method, path |-> path, data |-> data,
      answer |-> tr.kind,
      gotResp |-> got,
      status |-> IF got THEN tr.status ELSE 0,
      raw |-> IF got THEN tr.raw ELSE <<>>,
      readOk |-> got /\ tr.readOk ]

\* ReadResponse with the upper status bound off by one (> 300 for >= 300)
ReadResponseStatusOffByOne(c, method, path, data, tr) ==
    IF ~tr.readOk
    THEN Result("returned", <<>>, Err("read"), method, path, data, tr, TRUE)
    ELSE LET body == TrimPrefix(tr.raw, c.XssiPrefix) IN
         IF tr.status < 200 \/ tr.status > 300
         THEN Result("returned", body, StatusErr(tr.status, body), method, path, data, tr, TRUE)
         ELSE IF body = <<>>
         THEN Result("returned", EmptyObject, NoErr, method, path, data, tr, TRUE)
         ELSE Result("returned", body, NoErr, method, path, data, tr, TRUE)

\* ReadResponse without the "{}" for an empty successful body
ReadResponseEmptyKept(c, method, path, data, tr) ==
    IF ~tr.readOk
    THEN Result("returned", <<>>, Err("read"), method, path, data, tr, TRUE)
    ELSE LET body == TrimPrefix(tr.raw, c.XssiPrefix) IN
         IF tr.status < 200 \/ tr.status >= 300
         THEN Result("returned", body, StatusErr(tr.status, body), method, path, data, tr, TRUE)
         ELSE Result("returned", body, NoErr, method, path, data, tr, TRUE)

\* lines 383-402: the body read, the XSSI prefix, the status, the empty body
ReadResponse(c, method, path, data, tr) ==
    IF ~tr.readOk
    THEN Result("returned", <<>>, Err("read"), method, path, data, tr, TRUE)
    ELSE LET body == TrimPrefix(tr.raw, c.XssiPrefix) IN
         IF tr.status < 200 \/ tr.status >= 300
         THEN Result("returned", body, StatusErr(tr.status, body), method, path, data, tr, TRUE)
         ELSE IF body = <<>>
         THEN Result("returned", EmptyObject, NoErr, method, path, data, tr, TRUE)
         ELSE Result("returned", body, NoErr, method, path, data, tr, TRUE)

\* RequestHeader with the basic credentials set first instead of last
RequestHeaderBasicFirst(c, jwt, data, order, access) ==
    LET h0 == IF data # "" THEN HeaderSet(<<>>, "Content-Type", Raw("application/json"))
              ELSE <<>>
        h1 == IF c.Username # "" /\ c.Password # ""
              THEN HeaderSet(h0, "Authorization", Basic(c.Username, c.Password))
              ELSE h0
        h2 == SetAll(h1, c.Headers, order, 1)
        h3 == IF jwt # NoJwt
              THEN HeaderSet(h2, "Authorization", BearerJwt(GetSignedJwt(jwt)))
              ELSE h2
    IN IF c.OauthConfig # NoOauth
       THEN HeaderSet(h3, "Authorization", BearerText(access))
       ELSE h3

\* lines 292-303 and 314-340: the headers of the request, given the order in
\* which the configured headers are visited and the OAuth2 access token
RequestHeader(c, jwt, data, order, access) ==
    LET h0 == IF data # "" THEN HeaderSet(<<>>, "Content-Type", Raw("application/json"))
              ELSE <<>>
        h1 == SetAll(h0, c.Headers, order, 1)
        h2 == IF jwt # NoJwt
              THEN HeaderSet(h1, "Authorization", BearerJwt(GetSignedJwt(jwt)))
              ELSE h1
        h3 == IF c.OauthConfig # NoOauth
              THEN HeaderSet(h2, "Authorization", BearerText(access))
              ELSE h2
    IN IF c.Username # "" /\ c.Password # ""
       THEN HeaderSet(h3, "Authorization", Basic(c.Username, c.Password))
       ELSE h3

\* FinalAnswer that hands the redirect response itself to the caller
FinalAnswerNotFollowed(tr) == tr

\* http.Client without a CheckRedirect follows redirects: the answer the
\* caller of Do gets is the one at the end of the chain
RECURSIVE FinalAnswer(_)
FinalAnswer(tr) == IF tr.kind = "redirect" THEN FinalAnswer(tr.next) ELSE tr

\* the request net/http sends to the Location of a redirect: 307 and 308 keep
\* the method and the body, 301, 302 and 303 turn everything but GET and HEAD
\* into a GET without body; the limiter is not asked again
RedirectRequest(req, tr) ==
    LET keep == tr.status \in {307, 308} IN
    [ req EXCEPT !.kind = "hop", !.granted = FALSE, !.uri = tr.location,
                 !.method = IF keep \/ req.method \in {"GET", "HEAD"}
                            THEN req.method ELSE "GET",
                 !.hasBody = keep /\ req.hasBody,
                 !.body = IF keep THEN req.body ELSE "" ]

\* DoWire that sends the request a second time after a failure
RECURSIVE DoWireResent(_, _)
DoWireResent(req, tr) ==
    IF tr.kind = "redirect"
    THEN <<req>> \o DoWireResent(RedirectRequest(req, tr), tr.next)
    ELSE IF tr.kind = "resp" /\ tr.status >= 200 /\ tr.status <= 299
    THEN <<req>>
    ELSE <<req, req>>

\* the requests one client.HttpClient.Do(req) puts on the network when the
\* transport answers tr: the request, then one request per redirect followed
RECURSIVE DoWire(_, _)
DoWire(req, tr) ==
    IF tr.kind = "redirect"
    THEN <<req>> \o DoWire(RedirectRequest(req, tr), tr.next)
    ELSE <<req>>

\* Deadline that lets the endpoint one tick more than the timeout
DeadlineLate(c, at) ==
    IF c.Timeout > 0 THEN at + c.Timeout * TicksPerSec + 1 ELSE -1

\* Timeout: time.Second * time.Duration(opt.Timeout): the time at which a Do
\* started at time at is given up; -1 for none (a Timeout of zero or less
\* means no timeout)
Deadline(c, at) ==
    IF c.Timeout > 0 THEN at + c.Timeout * TicksPerSec ELSE -1

\* The whole of SendRequest(method, path, data) on the client c at time t with
\* limiter lim: the values it leaves behind.  env.oauth is the answer of the
\* token endpoint, env.do the answer of the transport, order the map order.
\* at is the time of the dispatch, now the time the call is over.
SendOutcome(c, lim, t, method, path, data, env, order) ==
    LET fullURI == c.Uri \o path
        jwt == IF c.Jwt # NoJwt THEN CompleteClaimValidityTime(c.Jwt, t) ELSE NoJwt
        c2 == [c EXCEPT !.Jwt = jwt]
        header == RequestHeader(c, jwt, data, order, "access")
        w == LimiterWait(lim, t)
        tokenReq == IF c.OauthConfig # NoOauth THEN <<TokenRequest>> ELSE <<>>
        none == Result("returned", <<>>, NoErr, method, path, data, NoAnswer, FALSE)
    IN
    IF ~(ValidMethod(method) /\ ValidUrl(fullURI))
    THEN \* log.Fatal(err): the process exits
         [ pc |-> "dead", client |-> c, limiter |-> lim, now |-> t, at |-> t,
           wire |-> <<>>,
           res |-> [none EXCEPT !.ret = "exit", !.err = Err("request")] ]
    ELSE IF jwt # NoJwt /\ ~KnownAlgorithm(jwt.Algortithm)
    THEN \* NewWithClaims calls Alg() on the nil signing method
         [ pc |-> "dead", client |-> c2, limiter |-> lim, now |-> t, at |-> t,
           wire |-> <<>>,
           res |-> [none EXCEPT !.ret = "panic", !.err = Err("panic")] ]
    ELSE IF c.OauthConfig # NoOauth /\ env.oauth = "fail"
    THEN [ pc |-> "ready", client |-> c2, limiter |-> lim, now |-> t, at |-> t,
           wire |-> tokenReq,
           res |-> [none EXCEPT !.err = Err("oauth")] ]
    ELSE LET req == ApiRequest(method, fullURI, header, data, w.ok)
             final == FinalAnswer(env.do)
             at == t + w.wait
             onWire == tokenReq \o DoWire(req, env.do)
         IN
         IF final.kind = "hang" /\ Deadline(c, at) < 0
         THEN \* nothing ends the Do: the call never returns
              [ pc |-> "blocked", client |-> c2, limiter |-> w.lim, now |-> at,
                at |-> at, wire |-> onWire,
                res |-> Result("never", <<>>, NoErr, method, path, data, final, FALSE) ]
         ELSE IF final.kind = "hang"
         THEN [ pc |-> "ready", client |-> c2, limiter |-> w.lim,
                now |-> Deadline(c, at), at |-> at, wire |-> onWire,
                res |-> Result("returned", <<>>, Err("timeout"), method, path, data,
                               final, FALSE) ]
         ELSE [ pc |-> "ready", client |-> c2, limiter |-> w.lim, now |-> at,
                at |-> at, wire |-> onWire,
                res |-> IF final.kind = "error"
                        THEN Result("returned", <<>>, Err("transport"), method, path,
                                    data, final, FALSE)
                        ELSE ReadResponse(c, method, path, data, final) ]

\* true when the outcome put the API request on the network
Dispatched(out) == \E i \in 1..Len(out.wire) : out.wire[i].kind = "api"

\* what one SendRequest call with outcome out leaves in the client, on the
\* network and on the clock
Sent(out) ==
    /\ out.now <= MaxTime
    /\ pc' = out.pc
    /\ client' = out.client
    /\ limiter' = out.limiter
    /\ now' = out.now
    /\ wire' = out.wire
    /\ res' = out.res
    /\ calls' = calls + 1
    /\ sent' = IF Dispatched(out) THEN sent + 1 ELSE sent
    /\ firstAt' = IF Dispatched(out) /\ firstAt < 0 THEN out.at ELSE firstAt
    /\ lastAt' = IF Dispatched(out) THEN out.at ELSE lastAt
    /\ doneAt' = IF out.res.ret = "returned" THEN out.now ELSE doneAt
    /\ timeouts' = IF out.res.err = Err("timeout") THEN timeouts + 1 ELSE timeouts
    /\ UNCHANGED <<callers, log>>

SendRequest(method, path, data, env) ==
    /\ pc = "ready"
    /\ calls < MaxCalls
    /\ \E order \in Orders(DOMAIN client.Headers) :
         Sent(SendOutcome(client, limiter, now, method, path, data, env, order))
    /\ UNCHANGED <<given, opt, newErr, tf>>

\* time passes between two calls
Tick ==
    /\ pc = "ready"
    /\ now < MaxTime
    /\ now' = now + 1
    /\ UNCHANGED <<pc, given, opt, client, newErr, limiter, wire, res, calls,
                   sent, firstAt, lastAt, doneAt, timeouts, tf,
                   callers, log>>

-----------------------------------------------------------------------------
(* Initial states and specifications *)

NoCall == Result("none", <<>>, NoErr, "", <<>>, "", NoAnswer, FALSE)

\* the client before NewAPIClient(o)
InitClient(o) ==
    /\ pc = "new"
    /\ given = o
    /\ opt = o
    /\ client = NoClient
    /\ newErr = "nil"
    /\ limiter = NoLimiter
    /\ now = 0
    /\ wire = <<>>
    /\ res = NoCall
    /\ calls = 0
    /\ sent = 0
    /\ firstAt = -1
    /\ lastAt = -1
    /\ doneAt = -1
    /\ timeouts = 0

\* SendRequest is called by one goroutine at a time
OneByOne ==
    /\ callers = <<>>
    /\ log = <<>>

\* before NewAPIClient(o), the client on its own
InitWith(o) ==
    /\ InitClient(o)
    /\ tf = NoTf
    /\ OneByOne

OkResponse == Response(200, <<"j">>, TRUE)
OkEnv == [oauth |-> "ok", do |-> OkResponse]

(* Construction: the options NewAPIClient defaults, trims and loads *)

UriChoices ==
    { <<>>, <<"/">>, <<"h">>, <<"h", "/">>, <<"h", "/", "/">>, <<"h", "/", "p">> }

NewOpts ==
    { [DefaultOpt EXCEPT !.Uri = u, !.IdAttribute = i, !.CreateMethod = cm,
                         !.ReadMethod = rm, !.UpdateMethod = um, !.DestroyMethod = dm,
                         !.Username = un, !.XssiPrefix = x] :
        u \in UriChoices, i \in {"", "uuid"}, cm \in {"", "PUT"}, rm \in {"", "POST"},
        um \in {"", "PATCH"}, dm \in {"", "POST"}, un \in {"", "u"},
        x \in {<<>>, <<"w">>} }
    \cup
    { [DefaultOpt EXCEPT !.Uri = u, !.OauthClientID = oi, !.OauthClientSecret = os,
                         !.OauthTokenURL = ou, !.Password = pw] :
        u \in {<<"h">>, <<"h", "/">>}, oi \in {"", "id"}, os \in {"", "secret"},
        ou \in {"", "url"}, pw \in {"", "p"} }
    \cup
    { [DefaultOpt EXCEPT !.Uri = u, !.CertString = cs, !.KeyString = ks,
                         !.CertFile = cf, !.KeyFile = kf,
                         !.RootCaFile = rf, !.RootCaString = rs] :
        u \in {<<>>, <<"h">>}, cs \in Material, ks \in Material,
        cf \in {"", "good", "missing"}, kf \in {"", "good"},
        rf \in FileMaterial, rs \in Material }

Init == \E o \in NewOpts : InitWith(o)

SendPlain ==
    \E path \in {<<>>, <<"/", "p">>} : SendRequest("GET", path, "", OkEnv)

Next == NewAPIClient \/ SendPlain

Spec == Init /\ [][Next]_vars

-----------------------------------------------------------------------------
(* Claims about construction, checked under Spec *)

\* the API requests among those the last call put on the network
ApiRequests == {i \in 1..Len(wire) : wire[i].kind = "api"}

\* C7: for every non-empty URI given to NewAPIClient the client's base URI
\* does not end with '/', and every SendRequest targets the base URI
\* followed by the path it was given.
C7_BaseUriNoTrailingSlash ==
    client # NoClient =>
        /\ ~HasSuffix(client.Uri, Slash)
        /\ \A i \in ApiRequests : wire[i].uri = client.Uri \o res.path

\* C8 as stated: defaults are filled for the empty identifier attribute and
\* verbs, and every option given a non-empty value is in the client unchanged.
C8_EveryOptionCarried ==
    client # NoClient =>
        /\ given.IdAttribute = "" => client.IdAttribute = "id"
        /\ given.CreateMethod = "" => client.CreateMethod = "POST"
        /\ given.ReadMethod = "" => client.ReadMethod = "GET"
        /\ given.UpdateMethod = "" => client.UpdateMethod = "PUT"
        /\ given.DestroyMethod = "" => client.DestroyMethod = "DELETE"
        /\ \A f \in {"IdAttribute", "CreateMethod", "ReadMethod", "UpdateMethod",
                     "DestroyMethod", "Username", "Password"} :
              given[f] # "" => client[f] = given[f]
        /\ \A f \in {"Uri", "XssiPrefix"} :
              given[f] # <<>> => client[f] = given[f]
        /\ given.OauthClientID # "" =>
              /\ client.OauthConfig # NoOauth
              /\ client.OauthConfig.ClientID = given.OauthClientID

\* C8 amended: defaults are filled only for the empty identifier attribute and
\* verbs; the identifier attribute, verbs, username, password and XSSI prefix
\* given non-empty are carried unchanged; the URI is carried with one trailing
\* slash removed; the OAuth2 settings are carried only when the client id,
\* the client secret and the token URL are all non-empty.
C8_DefaultsOnlyForEmpty ==
    client # NoClient =>
        /\ given.IdAttribute = "" => client.IdAttribute = "id"
        /\ given.CreateMethod = "" => client.CreateMethod = "POST"
        /\ given.ReadMethod = "" => client.ReadMethod = "GET"
        /\ given.UpdateMethod = "" => client.UpdateMethod = "PUT"
        /\ given.DestroyMethod = "" => client.DestroyMethod = "DELETE"
        /\ \A f \in {"IdAttribute", "CreateMethod", "ReadMethod", "UpdateMethod",
                     "DestroyMethod", "Username", "Password"} :
              given[f] # "" => client[f] = given[f]
        /\ client.XssiPrefix = given.XssiPrefix
        /\ IF HasSuffix(given.Uri, Slash)
           THEN client.Uri \o Slash = given.Uri
           ELSE client.Uri = given.Uri
        /\ IF given.OauthClientID # "" /\ given.OauthClientSecret # ""
              /\ given.OauthTokenURL # ""
           THEN client.OauthConfig =
                    [ ClientID     |-> given.OauthClientID,
                      ClientSecret |-> given.OauthClientSecret,
                      TokenURL     |-> given.OauthTokenURL ]
           ELSE client.OauthConfig = NoOauth

\* a client built from options that mix given and defaulted values
C8_Witness ==
    /\ pc = "ready"
    /\ given.IdAttribute = "" /\ client.IdAttribute = "id"
    /\ given.ReadMethod = "POST" /\ client.ReadMethod = "POST"
    /\ given.UpdateMethod = "" /\ client.UpdateMethod = "PUT"
    /\ given.Uri = <<"h", "/">> /\ client.Uri = <<"h">>

\* every piece of certificate, key and root-CA material that was supplied
AllSuppliedLoads ==
    /\ \A f \in {"CertString", "KeyString", "CertFile", "KeyFile",
                 "RootCaFile", "RootCaString"} :
          given[f] # "" => given[f] = "good"

\* C9 as stated: an empty URI gives an error and no client, and a client is
\* returned only when the URI is non-empty and all supplied certificate, key
\* and root-CA material loads.
C9_ClientOnlyIfAllMaterialLoads ==
    /\ (pc # "new" /\ given.Uri = <<>>) => (client = NoClient /\ newErr # "nil")
    /\ client # NoClient => (given.Uri # <<>> /\ AllSuppliedLoads)

\* C9 amended: an empty URI gives an error and no client; a client is returned
\* only when the URI is non-empty and the material NewAPIClient loads is well
\* formed: a certificate string or file supplied together with its key, the
\* root-CA file, or the root-CA string when no root-CA file is given.  A
\* certificate without its key, a key without its certificate and a root-CA
\* string next to a root-CA file are not loaded and do not prevent the client.
C9_ClientOnlyIfLoadedMaterialLoads ==
    /\ (pc # "new" /\ given.Uri = <<>>) => (client = NoClient /\ newErr # "nil")
    /\ (pc # "new" /\ client = NoClient) => newErr # "nil"
    /\ client # NoClient =>
        /\ newErr = "nil"
        /\ given.Uri # <<>>
        /\ (given.CertString # "" /\ given.KeyString # "") =>
               (given.CertString = "good" /\ given.KeyString = "good")
        /\ (given.CertFile # "" /\ given.KeyFile # "") =>
               (given.CertFile = "good" /\ given.KeyFile = "good")
        /\ given.RootCaFile # "" => given.RootCaFile = "good"
        /\ (given.RootCaFile = "" /\ given.RootCaString # "") =>
               given.RootCaString = "good"

\* a client built with a key pair and a root CA that load
C9_Witness ==
    /\ pc = "ready"
    /\ given.CertString = "good" /\ given.KeyString = "good"
    /\ given.RootCaString = "good" /\ given.RootCaFile = ""
    /\ client.Tls = [Certificates |-> "string", RootCAs |-> "string"]

-----------------------------------------------------------------------------
(* Responses: the status, the XSSI prefix and the body SendRequest returns *)

RECURSIVE Strings(_, _)
\* the strings over the alphabet of length at most n
Strings(alphabet, n) ==
    IF n = 0 THEN {<<>>}
    ELSE LET shorter == Strings(alphabet, n - 1) IN
         shorter \cup {Append(s, a) : s \in shorter, a \in alphabet}

Bodies == Strings({"w", "j"}, MaxBody)
Statuses == {199, 200, 299, 300, 404}

RespOpts ==
    { [DefaultOpt EXCEPT !.XssiPrefix = x] : x \in {<<>>, <<"w">>, <<"w", "j">>} }

InitResp == \E o \in RespOpts : InitWith(o)

SendAnswered ==
    \E do \in {TransportError} \cup
              {Response(st, raw, ok) : st \in Statuses, raw \in Bodies, ok \in BOOLEAN} :
        SendRequest("GET", <<"/", "p">>, "", [oauth |-> "ok", do |-> do])

NextResp == NewAPIClient \/ SendAnswered

SpecResp == InitResp /\ [][NextResp]_vars

\* b is raw with one leading occurrence of prefix removed, or raw itself when
\* raw does not start with prefix
IsStripped(b, raw, prefix) ==
    IF HasPrefix(raw, prefix) THEN prefix \o b = raw ELSE b = raw

Is2xx(status) == status >= 200 /\ status < 300

\* C4 as stated: SendRequest returns a nil error exactly when the response
\* status is in [200,300); for any other status the error carries the status
\* code and the body, and the stripped body is returned with it.
C4_NilErrorIffStatus2xx ==
    res.gotResp =>
        /\ (res.err = NoErr) <=> Is2xx(res.status)
        /\ ~Is2xx(res.status) =>
              /\ res.err.kind = "status"
              /\ res.err.code = res.status
              /\ res.err.body = res.body
              /\ IsStripped(res.body, res.raw, client.XssiPrefix)

\* C4 amended: when the response body was read in full, SendRequest returns
\* a nil error exactly when the status is in [200,300), and for any other
\* status an error carrying the status code and the stripped body, which is
\* also the string result; when reading the body fails it returns the empty
\* string and the read error whatever the status.  Without a response there
\* is no success.
C4_NilErrorIffReadAnd2xx ==
    /\ (res.gotResp /\ res.readOk) =>
        /\ (res.err = NoErr) <=> Is2xx(res.status)
        /\ ~Is2xx(res.status) =>
              /\ res.err.kind = "status"
              /\ res.err.code = res.status
              /\ res.err.body = res.body
              /\ IsStripped(res.body, res.raw, client.XssiPrefix)
    /\ (res.gotResp /\ ~res.readOk) =>
        /\ res.err = Err("read")
        /\ res.body = <<>>
    /\ (res.ret = "returned" /\ ~res.gotResp) =>
        /\ res.err # NoErr
        /\ res.body = <<>>

\* a 404 whose body carried the XSSI prefix, returned with its error
C4_Witness ==
    /\ res.gotResp /\ res.readOk
    /\ res.status = 404
    /\ client.XssiPrefix = <<"w">>
    /\ res.raw = <<"w", "j">>
    /\ res.body = <<"j">>
    /\ res.err = StatusErr(404, <<"j">>)

\* C5: a successful SendRequest whose response body is empty, as received or
\* once the XSSI prefix is stripped, returns "{}"; a successful SendRequest
\* never returns the empty string.
C5_EmptySuccessIsEmptyObject ==
    (res.ret = "returned" /\ res.err = NoErr) =>
        /\ res.body # <<>>
        /\ IsStripped(<<>>, res.raw, client.XssiPrefix) => res.body = EmptyObject

\* a success whose body was nothing but the XSSI prefix
C5_Witness ==
    /\ res.ret = "returned" /\ res.err = NoErr
    /\ client.XssiPrefix = <<"w", "j">>
    /\ res.raw = <<"w", "j">>
    /\ res.body = EmptyObject

\* C6 as stated: the returned body is the response body with one leading
\* occurrence of the XSSI prefix removed, and the response body unchanged when
\* it does not start with the prefix.
C6_ReturnsStrippedBody ==
    (res.gotResp /\ res.readOk) => IsStripped(res.body, res.raw, client.XssiPrefix)

\* C6 amended: as stated, except that a successful response whose body is
\* empty once the prefix is removed is returned as "{}".
C6_ReturnsStrippedBodyOrEmptyObject ==
    (res.gotResp /\ res.readOk) =>
        IF Is2xx(res.status) /\ IsStripped(<<>>, res.raw, client.XssiPrefix)
        THEN res.body = EmptyObject
        ELSE IsStripped(res.body, res.raw, client.XssiPrefix)

\* a body that starts with the prefix twice loses it once
C6_Witness ==
    /\ res.gotResp /\ res.readOk
    /\ client.XssiPrefix = <<"w">>
    /\ res.raw = <<"w", "w">>
    /\ res.body = <<"w">>

-----------------------------------------------------------------------------
(* Authentication and headers *)

HeaderChoices ==
    { <<>>,
      "Authorization" :> "static",
      "authorization" :> "static",
      "Content-Type" :> "text/xml",
      "content-type" :> "text/xml",
      ("Content-Type" :> "text/xml") @@ ("content-type" :> "text/csv"),
      ("Authorization" :> "static") @@ ("Content-Type" :> "text/xml"),
      "X-Api" :> "key" }

Jwt(alg, claims, minutes) ==
    [ Secret |-> "secret", Algortithm |-> alg, Claims |-> claims,
      ValidityDurationMinute |-> minutes ]

JwtChoices ==
    { NoJwt,
      Jwt("HS256", "a" :> 7, 0),
      Jwt("HS512", "exp" :> 5, 1),
      Jwt("RS256", "a" :> 7, 0),
      Jwt("", "a" :> 7, 0) }

AuthOpts ==
    { [DefaultOpt EXCEPT !.Headers = h, !.Jwt = j,
                         !.OauthClientID = o[1], !.OauthClientSecret = o[2],
                         !.OauthTokenURL = o[3],
                         !.Username = b[1], !.Password = b[2]] :
        h \in HeaderChoices, j \in JwtChoices,
        o \in {<<"", "", "">>, <<"id", "secret", "url">>, <<"id", "", "url">>},
        b \in {<<"", "">>, <<"u", "p">>, <<"u", "">>} }

InitAuth == \E o \in AuthOpts : InitWith(o)

SendAuthenticated ==
    \E data \in {"", "d"}, oauth \in {"ok", "fail"} :
        SendRequest("POST", <<"/", "p">>, data, [oauth |-> oauth, do |-> OkResponse])

NextAuth == NewAPIClient \/ SendAuthenticated

SpecAuth == InitAuth /\ [][NextAuth]_vars

\* the configured values of the static headers whose name is one of names
Configured(names) ==
    {Raw(given.Headers[n]) : n \in DOMAIN given.Headers \cap names}

AuthorizationNames == {"Authorization", "authorization", "AUTHORIZATION"}
ContentTypeNames == {"Content-Type", "content-type", "Content-type"}

BasicGiven == given.Username # "" /\ given.Password # ""
OauthGiven ==
    given.OauthClientID # "" /\ given.OauthClientSecret # "" /\ given.OauthTokenURL # ""

\* C3: the Authorization header of a dispatched request is the basic
\* credentials when username and password are both non-empty, whatever the
\* static headers, JWT and OAuth2 produced; otherwise the OAuth2 bearer token
\* when OAuth2 is configured; otherwise the JWT bearer token when JWT is
\* configured; otherwise the static Authorization header when one is
\* configured; otherwise there is no Authorization header.
C3_AuthorizationPrecedence ==
    \A i \in ApiRequests :
        LET h == wire[i].header IN
        IF BasicGiven
        THEN h["Authorization"] = Basic(given.Username, given.Password)
        ELSE IF OauthGiven
        THEN h["Authorization"] = BearerText("access")
        ELSE IF given.Jwt # NoJwt
        THEN /\ h["Authorization"].scheme = "Bearer"
             /\ h["Authorization"].user = "" /\ h["Authorization"].text = ""
             /\ given.Jwt.Algortithm \in {"HS256", "HS384", "HS512"} =>
                    h["Authorization"].tok =
                        [ alg |-> given.Jwt.Algortithm, claims |-> client.Jwt.Claims,
                          secret |-> given.Jwt.Secret ]
        ELSE IF Configured(AuthorizationNames) # {}
        THEN h["Authorization"] \in Configured(AuthorizationNames)
        ELSE "Authorization" \notin DOMAIN h

\* static Authorization header, JWT and basic credentials all configured:
\* the request went out with the basic credentials
C3_Witness ==
    /\ ApiRequests # {}
    /\ Configured(AuthorizationNames) # {}
    /\ given.Jwt # NoJwt
    /\ BasicGiven
    /\ \A i \in ApiRequests : wire[i].header["Authorization"] = Basic("u", "p")

\* C10: a request with a non-empty body has Content-Type application/json
\* unless a static header named Content-Type, in any letter case, is
\* configured, and then a configured value is sent; with an empty body
\* SendRequest adds no Content-Type of its own and sends no body.
C10_ContentType ==
    \A i \in ApiRequests :
        LET h == wire[i].header IN
        /\ wire[i].hasBody <=> res.data # ""
        /\ wire[i].body = res.data
        /\ IF Configured(ContentTypeNames) # {}
           THEN /\ h["Content-Type"] \in Configured(ContentTypeNames)
                /\ DOMAIN h \cap ContentTypeNames = {"Content-Type"}
           ELSE IF res.data # ""
           THEN h["Content-Type"] = Raw("application/json")
           ELSE "Content-Type" \notin DOMAIN h

\* a request with a body sent with the Content-Type configured in lower case
C10_Witness ==
    /\ ApiRequests # {}
    /\ res.data = "d"
    /\ DOMAIN given.Headers = {"content-type"}
    /\ \A i \in ApiRequests : wire[i].header["Content-Type"] = Raw("text/xml")

-----------------------------------------------------------------------------
(* The rate limiter in time *)

RateChoices == {Rate(0, 1), Rate(2, 5), Rate(1, 2), Rate(1, 1), Rate(2, 1)}

RateOpts == { [DefaultOpt EXCEPT !.RateLimit = r] : r \in RateChoices }

InitRate == \E o \in RateOpts : InitWith(o)

SendTimed ==
    \E do \in {OkResponse, TransportError} :
        SendRequest("GET", <<"/", "p">>, "", [oauth |-> "ok", do |-> do])

NextRate == NewAPIClient \/ SendTimed \/ Tick

SpecRate == InitRate /\ [][NextRate]_vars

\* C1: with rate limit R > 0 and burst B = max(round(R), 1), N > B requests
\* dispatched one after the other take at least (N - B)/R seconds from the
\* first dispatch to the last; with R = 1, four requests take 3 seconds.
C1_SequentialRequestsTakeTime ==
    LET R == given.RateLimit
        B == Max(Round(R), 1)
    IN (pc = "ready" /\ R.num > 0 /\ sent > B) =>
          /\ (lastAt - firstAt) * R.num >= (sent - B) * TicksPerSec * R.den
          /\ (R = Rate(1, 1) /\ sent = 4) => lastAt - firstAt >= 3 * TicksPerSec

\* four requests at one request per second, the last 3 seconds after the first
C1_Witness ==
    /\ given.RateLimit = Rate(1, 1)
    /\ sent = 4
    /\ lastAt - firstAt = 3 * TicksPerSec

\* C2: every HTTP request that a SendRequest call puts on the network was
\* preceded by a granted rate-limiter token, for every rate limit and every
\* authentication configuration.
C2_EveryRequestGranted ==
    \A i \in 1..Len(wire) : wire[i].granted

-----------------------------------------------------------------------------
(* The transport: failures, an endpoint that never responds, redirects *)

\* longest chain of redirects the server answers with
MaxHops == 2

TimeoutChoices == {0, 1, 2}

TransportOpts ==
    { [DefaultOpt EXCEPT !.Timeout = tmo, !.RateLimit = r] :
        tmo \in TimeoutChoices, r \in {Rate(1, 1), Rate(2, 1)} }

\* what the endpoints of the test server answer: /ok, an error status, a
\* broken connection, /slow
FinalAnswers == {OkResponse, Response(404, <<"n">>, TRUE), TransportError, Hang}

\* /redirect: a permanent redirect (308, or 301 as the last hop) to a location
\* that answers in turn, chains of up to n redirects
RECURSIVE Answers(_)
Answers(n) ==
    IF n = 0 THEN FinalAnswers
    ELSE Answers(n - 1)
         \cup { Redirect(308, <<"h", "/", "o">>, next) : next \in Answers(n - 1) }
         \cup { Redirect(301, <<"h", "/", "o">>, next) : next \in FinalAnswers }

\* every answer the transport can give to one Do
AllAnswers == Answers(MaxHops)

InitTransport == \E o \in TransportOpts : InitWith(o)

SendOverNetwork ==
    \E m \in {"GET", "POST"}, do \in AllAnswers :
        SendRequest(m, <<"/", "p">>, IF m = "POST" THEN "d" ELSE "",
                    [oauth |-> "ok", do |-> do])

NextTransport == NewAPIClient \/ SendOverNetwork

SpecTransport == InitTransport /\ [][NextTransport]_vars

\* tokens the limiter lim2 has given out since it was lim, at time t
TokensTaken(lim, lim2, t) ==
    IF lim.limit.num = 0
    THEN lim.burst - lim2.burst
    ELSE LET full == lim.burst * Period(lim.limit)
             have == Min(full, lim.tokens + (t - lim.last))
         IN (have - lim2.tokens) \div Period(lim.limit)

\* the call that just ended got no successful final response
Failed(r) ==
    \/ r.answer \in {"error", "hang"}
    \/ r.answer = "resp" /\ ~(r.status >= 200 /\ r.status <= 299)

\* C11: one SendRequest call hands its request to the HTTP client at most
\* once and takes at most one token from the limiter; when the transport
\* fails, the timeout strikes or the final response is not 2xx, the call
\* returns the error at once (at the dispatch time, or at the deadline for a
\* timeout) and nothing is sent again.
C11_OneDispatchPerCall ==
    [][ calls' = calls + 1 =>
          /\ sent' <= sent + 1
          /\ Cardinality({i \in 1..Len(wire') : wire'[i].kind = "api"}) <= 1
          /\ TokensTaken(limiter, limiter', now) <= 1
          /\ (Failed(res') /\ pc' = "ready") =>
                /\ res'.ret = "returned"
                /\ res'.err # NoErr
                /\ doneAt' = IF res'.answer = "hang"
                             THEN lastAt' + client.Timeout * TicksPerSec
                             ELSE lastAt'
                /\ wire'[Len(wire')].kind \in {"api", "hop"}
                /\ \A i \in 1..Len(wire') - 1 :
                     wire'[i].kind = "api" => wire'[i + 1].kind = "hop" ]_vars

\* a call that failed on a 404 after another call: one request, one token
C11_Witness ==
    /\ calls >= 2
    /\ res.answer = "resp"
    /\ res.status = 404
    /\ res.err = StatusErr(404, <<"n">>)
    /\ Len(wire) = 1
    /\ doneAt = lastAt

\* C12 as stated: whatever timeout the client was built with, a call whose
\* endpoint never responds returns a non-nil error no later than the timeout
\* after its dispatch, and the client stays usable.
C12_HangReturnsErrorForEveryTimeout ==
    res.answer = "hang" =>
        /\ res.ret = "returned"
        /\ res.err # NoErr
        /\ doneAt - lastAt <= client.Timeout * TicksPerSec
        /\ pc = "ready"

\* C12: with a positive timeout, a call whose endpoint never responds returns
\* a non-nil error no later than the timeout after its dispatch, and the
\* client stays usable for later calls.
C12_HangReturnsErrorForPositiveTimeout ==
    (res.answer = "hang" /\ client.Timeout > 0) =>
        /\ res.ret = "returned"
        /\ res.err # NoErr
        /\ doneAt - lastAt <= client.Timeout * TicksPerSec
        /\ pc = "ready"

\* a call succeeds on a client one of whose earlier calls timed out
C12_Witness ==
    /\ timeouts >= 1
    /\ client.Timeout > 0
    /\ res.answer = "resp"
    /\ res.err = NoErr
    /\ res.body = <<"j">>

\* the redirect hops of the last call
Hops == {i \in 1..Len(wire) : wire[i].kind = "hop"}

\* C13: when the path answers with a permanent redirect, the one SendRequest
\* call follows it to the location and returns what the final target
\* answered: its body with a nil error for a 2xx status, the status error
\* otherwise; the redirect status itself never reaches the caller.
C13_RedirectFollowed ==
    (Hops # {} /\ res.ret = "returned") =>
        /\ \A i \in Hops : i > 1 /\ wire[i].uri = <<"h", "/", "o">>
        /\ res.answer \in {"resp", "error", "hang"}
        /\ res.status \notin {301, 308}
        /\ res.answer = "resp" =>
              /\ res.status \in {200, 404}
              /\ res.status = 200 => res.err = NoErr /\ res.body = <<"j">>
              /\ res.status = 404 => res.err = StatusErr(404, <<"n">>)
                                     /\ res.body = <<"n">>

\* a POST redirected with 308 to a location that answers 200: the second
\* request repeats the POST and the call returns the body of the location
C13_Witness ==
    /\ Len(wire) = 2
    /\ wire[1].kind = "api"
    /\ wire[2].kind = "hop"
    /\ wire[2].method = "POST"
    /\ wire[2].uri = <<"h", "/", "o">>
    /\ res.ret = "returned"
    /\ res.status = 200
    /\ res.err = NoErr
    /\ res.body = <<"j">>

-----------------------------------------------------------------------------
(* JWT signing failures, checked under SpecAuth *)

\* C14: when the JWT algorithm is not one of the HMAC methods, every
\* SendRequest call returns an error and puts no API request on the network:
\* no request carries an empty bearer token and the process is not aborted.
C14_UnsignableJwtIsAnError ==
    ( /\ given.Jwt # NoJwt
      /\ ~HmacAlgorithm(given.Jwt.Algortithm)
      /\ res.ret # "none" ) =>
        /\ res.ret = "returned"
        /\ pc = "ready"
        /\ res.err # NoErr
        /\ ApiRequests = {}

-----------------------------------------------------------------------------
(* encoding/json as the tenant resource uses it.  A JSON text is the       *)
(* sequence of its tokens: the punctuation, string literals (written with  *)
(* their quotes) and number literals.                                      *)

\* the string each string literal stands for
Unquote ==
    ("\"id\"" :> <<"id">>) @@ ("\"identifier\"" :> <<"identifier">>)
    @@ ("\"repo_name_prefix\"" :> <<"repo_name_prefix">>)
    @@ ("\"6\"" :> <<"6">>) @@ ("\"7\"" :> <<"7">>)
    @@ ("\"t\"" :> <<"t">>) @@ ("\"r\"" :> <<"r">>)

NumberLiterals == {"1"}

JsonNull == [t |-> "null", v |-> <<>>]
JsonString(str) == [t |-> "string", v |-> str]
JsonNumber(lit) == [t |-> "number", v |-> <<lit>>]
JsonArray(elems) == [t |-> "array", v |-> elems]
JsonObject(members) == [t |-> "object", v |-> members]

ParseFail == [ok |-> FALSE, val |-> JsonNull, next |-> 0]
Parsed(val, next) == [ok |-> TRUE, val |-> val, next |-> next]

\* the decoder: the value that starts at token i of s and the index after it
RECURSIVE ParseValue(_, _)
RECURSIVE ParseElements(_, _, _)
RECURSIVE ParseMembers(_, _, _)
ParseValue(s, i) ==
    IF i > Len(s) THEN ParseFail
    ELSE IF s[i] \in DOMAIN Unquote THEN Parsed(JsonString(Unquote[s[i]]), i + 1)
    ELSE IF s[i] \in NumberLiterals THEN Parsed(JsonNumber(s[i]), i + 1)
    ELSE IF s[i] = "["
    THEN IF i + 1 <= Len(s) /\ s[i + 1] = "]"
         THEN Parsed(JsonArray(<<>>), i + 2)
         ELSE ParseElements(s, i + 1, <<>>)
    ELSE IF s[i] = "{"
    THEN IF i + 1 <= Len(s) /\ s[i + 1] = "}"
         THEN Parsed(JsonObject(<<>>), i + 2)
         ELSE ParseMembers(s, i + 1, <<>>)
    ELSE ParseFail

ParseElements(s, i, acc) ==
    LET e == ParseValue(s, i) IN
    IF ~e.ok \/ e.next > Len(s) THEN ParseFail
    ELSE IF s[e.next] = "," THEN ParseElements(s, e.next + 1, Append(acc, e.val))
    ELSE IF s[e.next] = "]" THEN Parsed(JsonArray(Append(acc, e.val)), e.next + 1)
    ELSE ParseFail

\* a member met again replaces the one decoded before
ParseMembers(s, i, acc) ==
    IF i + 1 > Len(s) \/ s[i] \notin DOMAIN Unquote \/ s[i + 1] # ":"
    THEN ParseFail
    ELSE LET e == ParseValue(s, i + 2)
             members == (Unquote[s[i]] :> e.val) @@ acc
         IN IF ~e.ok \/ e.next > Len(s) THEN ParseFail
            ELSE IF s[e.next] = "," THEN ParseMembers(s, e.next + 1, members)
            ELSE IF s[e.next] = "}" THEN Parsed(JsonObject(members), e.next + 1)
            ELSE ParseFail

\* json.Unmarshal([]byte(jsonData), &data): [ok, val]
Unmarshal(s) ==
    LET r == ParseValue(s, 1) IN
    IF r.ok /\ r.next = Len(s) + 1
    THEN [ok |-> TRUE, val |-> r.val]
    ELSE [ok |-> FALSE, val |-> JsonNull]

-----------------------------------------------------------------------------
(* The tenant resource: internal/provider/tenant_resource.go, in its two   *)
(* versions (1: lines 1-232, 2: lines 234-502)                             *)

\* a computed attribute that has no value yet
Unknown == <<"(unknown)">>
\* no resource in the Terraform state
NoState == [nil |-> TRUE]

\* tenantResourceModel for a resource configured with path and data
TenantModel(path, data) ==
    [ Id |-> Unknown, Tenant |-> Unknown, RepoNamePrefix |-> Unknown,
      Path |-> path, Data |-> data, LastUpdated |-> -1 ]

\* what update_computed_fields leaves: a panic, or the error and the model
Extraction(panic, err, m) == [panic |-> panic, err |-> err, m |-> m]

\* ContainerOf that takes the last element of an array
ContainerOfLastElement(val) ==
    IF val.t = "object"
    THEN [panic |-> FALSE, err |-> "nil", map |-> val.v]
    ELSE IF val.t = "array"
    THEN IF Len(val.v) = 0
         THEN [panic |-> TRUE, err |-> "index out of range", map |-> <<>>]
         ELSE IF val.v[Len(val.v)].t = "object"
         THEN [panic |-> FALSE, err |-> "nil", map |-> val.v[Len(val.v)].v]
         ELSE [panic |-> FALSE, err |-> "type assertion from any to []any fail",
               map |-> <<>>]
    ELSE [panic |-> FALSE, err |-> "the json data is not an array, neither a map",
          map |-> <<>>]

\* lines 197-210: the object the fields are read from; data.([]any)[0]
\* indexes the array without looking at its length
ContainerOf(val) ==
    IF val.t = "object"
    THEN [panic |-> FALSE, err |-> "nil", map |-> val.v]
    ELSE IF val.t = "array"
    THEN IF Len(val.v) = 0
         THEN [panic |-> TRUE, err |-> "index out of range", map |-> <<>>]
         ELSE IF val.v[1].t = "object"
         THEN [panic |-> FALSE, err |-> "nil", map |-> val.v[1].v]
         ELSE [panic |-> FALSE, err |-> "type assertion from any to []any fail",
               map |-> <<>>]
    ELSE [panic |-> FALSE, err |-> "the json data is not an array, neither a map",
          map |-> <<>>]

\* lines 185-232: update_computed_fields of version 1
update_computed_fields_v1(m, jsonData) ==
    LET d == Unmarshal(jsonData) IN
    IF ~d.ok THEN Extraction(FALSE, "invalid JSON", m)
    ELSE LET c == ContainerOf(d.val)
             mapData == c.map
         IN
         IF c.panic \/ c.err # "nil" THEN Extraction(c.panic, c.err, m)
         ELSE IF <<"id">> \notin DOMAIN mapData
         THEN Extraction(FALSE, "id not found", m)
         ELSE IF mapData[<<"id">>].t # "string"
         THEN Extraction(FALSE, "id value can't be casted into string", m)
         ELSE IF <<"identifier">> \notin DOMAIN mapData
         THEN Extraction(FALSE, "identifier not found", m)
         ELSE IF mapData[<<"identifier">>].t # "string"
         THEN Extraction(FALSE, "identifier value can't be casted into string", m)
         ELSE Extraction(FALSE, "nil",
                         [m EXCEPT !.Id = mapData[<<"id">>].v,
                                   !.Tenant = mapData[<<"identifier">>].v])

\* apiclient.JsonDecodeApiResponse: the object of the response, taken out of
\* the array when the response is an array: [err, map]
JsonDecodeApiResponse(response) ==
    LET d == Unmarshal(response) IN
    IF ~d.ok THEN [err |-> "invalid JSON", map |-> <<>>]
    ELSE IF d.val.t = "object" THEN [err |-> "nil", map |-> d.val.v]
    ELSE IF d.val.t = "array" /\ Len(d.val.v) > 0 /\ d.val.v[1].t = "object"
    THEN [err |-> "nil", map |-> d.val.v[1].v]
    ELSE [err |-> "neither an object nor a non-empty array of objects", map |-> <<>>]

\* apiclient.GetKeyValue(jsonData, name): [err, val]
GetKeyValue(jsonData, name) ==
    LET d == JsonDecodeApiResponse(jsonData) IN
    IF d.err # "nil" THEN [err |-> d.err, val |-> <<>>]
    ELSE IF name \notin DOMAIN d.map THEN [err |-> "not found", val |-> <<>>]
    ELSE IF d.map[name].t # "string" THEN [err |-> "not a string", val |-> <<>>]
    ELSE [err |-> "nil", val |-> d.map[name].v]

\* lines 479-502: update_computed_fields of version 2
update_computed_fields_v2(m, jsonData) ==
    LET id == GetKeyValue(jsonData, <<"id">>)
        tenant == GetKeyValue(jsonData, <<"identifier">>)
        repoNamePrefix == GetKeyValue(jsonData, <<"repo_name_prefix">>)
    IN
    IF id.err # "nil" THEN Extraction(FALSE, id.err, m)
    ELSE IF tenant.err # "nil" THEN Extraction(FALSE, tenant.err, m)
    ELSE IF repoNamePrefix.err # "nil" THEN Extraction(FALSE, repoNamePrefix.err, m)
    ELSE Extraction(FALSE, "nil",
                    [m EXCEPT !.Id = id.val, !.Tenant = tenant.val,
                              !.RepoNamePrefix = repoNamePrefix.val])

update_computed_fields(m, jsonData, version) ==
    IF version = 1 THEN update_computed_fields_v1(m, jsonData)
    ELSE update_computed_fields_v2(m, jsonData)

\* strings.TrimRight(s, "/")
RECURSIVE TrimRight(_)
TrimRight(s) ==
    IF s # <<>> /\ s[Len(s)] = "/" THEN TrimRight(SubSeq(s, 1, Len(s) - 1)) ELSE s

\* index of the first "," of s at or after i, 0 for none
RECURSIVE IndexComma(_, _)
IndexComma(s, i) ==
    IF i > Len(s) THEN 0 ELSE IF s[i] = "," THEN i ELSE IndexComma(s, i + 1)

\* strings.Split(req.ID, ","): the pieces between all the commas
RECURSIVE SplitAtEveryComma(_)
SplitAtEveryComma(s) ==
    LET i == IndexComma(s, 1) IN
    IF i = 0 THEN <<s>>
    ELSE <<SubSeq(s, 1, i - 1)>> \o SplitAtEveryComma(SubSeq(s, i + 1, Len(s)))

\* path of the read request for the tenant of a path
TenantReadPath(path, tenant) == TrimRight(path) \o <<"?identifier=">> \o tenant

\* handler calls followed on one resource
MaxOps == 3

\* the resource after Configure handed it the client: nothing in the state
TenantResource(version) ==
    [ kind |-> "tenant", version |-> version, state |-> NoState,
      op |-> "none", ops |-> 0, diags |-> <<>>, panic |-> FALSE,
      arg |-> NoState, model |-> NoState, importId |-> <<>>, callsBefore |-> 0 ]

\* what a handler leaves in tf
Handled(op, arg, model, state, diags) ==
    [ tf EXCEPT !.op = op, !.ops = @ + 1, !.arg = arg, !.model = model,
                !.state = state, !.diags = diags, !.callsBefore = calls ]

\* the handler is usable: the resource has its client and the plugin runs
TenantReady ==
    /\ tf # NoTf
    /\ tf.kind = "tenant"
    /\ ~tf.panic
    /\ tf.ops < MaxOps
    /\ pc = "ready"

\* Create (lines 90-116 and 331-357) for the plan of a resource with path
\* and data
Create(path, data, env) ==
    /\ TenantReady
    /\ tf.state = NoState
    /\ calls < MaxCalls
    /\ \E order \in Orders(DOMAIN client.Headers) :
         LET planResource == TenantModel(path, data) IN
         \E out \in {SendOutcome(client, limiter, now, "POST", path, data, env, order)} :
         \E u \in {update_computed_fields(planResource, out.res.body, tf.version)} :
         /\ Sent(out)
         /\ tf' =
              IF out.res.ret # "returned"
              THEN [Handled("create", planResource, planResource, NoState, <<>>)
                        EXCEPT !.panic = TRUE]
              ELSE IF out.res.err # NoErr
              THEN Handled("create", planResource, planResource, NoState,
                           <<"Create request error">>)
              ELSE IF u.panic
              THEN [Handled("create", planResource, u.m, NoState, <<>>)
                        EXCEPT !.panic = TRUE]
              ELSE IF u.err # "nil"
              THEN Handled("create", planResource, u.m, NoState,
                           <<"Missing attribute in create API response">>)
              ELSE Handled("create", planResource, u.m,
                           [u.m EXCEPT !.LastUpdated = out.now], <<>>)
    /\ UNCHANGED <<given, opt, newErr>>

\* Read (lines 119-136 and 360-377): the response is decoded into the
\* handler's copy of the state and the state is left as it was
Read(env) ==
    /\ TenantReady
    /\ tf.state # NoState
    /\ calls < MaxCalls
    /\ \E order \in Orders(DOMAIN client.Headers) :
         LET stateResource == tf.state
             path == TenantReadPath(stateResource.Path, stateResource.Tenant)
         IN
         \E out \in {SendOutcome(client, limiter, now, "GET", path, "", env, order)} :
         \E u \in {update_computed_fields(stateResource, out.res.body, tf.version)} :
         /\ Sent(out)
         /\ tf' =
              IF out.res.ret # "returned"
              THEN [Handled("read", stateResource, stateResource, tf.state, <<>>)
                        EXCEPT !.panic = TRUE]
              ELSE IF out.res.err # NoErr
              THEN Handled("read", stateResource, stateResource, tf.state,
                           <<"Read request error">>)
              ELSE IF u.panic
              THEN [Handled("read", stateResource, u.m, tf.state, <<>>)
                        EXCEPT !.panic = TRUE]
              ELSE IF u.err # "nil"
              THEN Handled("read", stateResource, u.m, tf.state,
                           <<"Missing attribute in read API response">>)
              ELSE Handled("read", stateResource, u.m, tf.state, <<>>)
    /\ UNCHANGED <<given, opt, newErr>>

\* Update (lines 139-156 and 380-397): the plan, which keeps the computed
\* attributes of the state, becomes the state; no request is made
Update(data) ==
    /\ TenantReady
    /\ tf.state # NoState
    /\ tf.state.Data # data
    /\ LET plan == [tf.state EXCEPT !.Data = data] IN
       tf' = Handled("update", plan, plan, [plan EXCEPT !.LastUpdated = now], <<>>)
    /\ UNCHANGED <<pc, given, opt, client, newErr, limiter, now, wire, res, calls,
                   sent, firstAt, lastAt, doneAt, timeouts, callers, log>>

\* Delete (lines 159-160 and 400-401) does nothing and reports nothing, and
\* Terraform then drops the resource from the state
Delete ==
    /\ TenantReady
    /\ tf.state # NoState
    /\ tf' = Handled("delete", tf.state, tf.state, NoState, <<>>)
    /\ UNCHANGED <<pc, given, opt, client, newErr, limiter, now, wire, res, calls,
                   sent, firstAt, lastAt, doneAt, timeouts, callers, log>>

\* lines 404-412: the import identifier is refused
ImportRefused(id) ==
    LET idParts == SplitAtEveryComma(id) IN
    Len(idParts) # 2 \/ idParts[1] = <<>> \/ idParts[2] = <<>>

\* lines 417-419: the attributes ImportState sets before its request
ImportedModel(tenantPath, tenantName, t) ==
    [ TenantModel(tenantPath, "") EXCEPT !.Tenant = tenantName, !.LastUpdated = t ]

\* lines 429-453: what ImportState does with the response data
ImportDecoded(m, responseData) ==
    LET d == JsonDecodeApiResponse(responseData)
        withData == [m EXCEPT !.Data = "encoded"]
    IN
    IF d.err # "nil" THEN [m |-> m, diags |-> <<"Import request error">>]
    ELSE IF ~(<<"id">> \in DOMAIN d.map /\ d.map[<<"id">>].t = "string")
    THEN [m |-> withData, diags |-> <<"Missing attribute in import API response">>]
    ELSE LET withId == [withData EXCEPT !.Id = d.map[<<"id">>].v] IN
         IF ~( /\ <<"repo_name_prefix">> \in DOMAIN d.map
               /\ d.map[<<"repo_name_prefix">>].t = "string" )
         THEN [m |-> withId, diags |-> <<"Missing attribute in import API response">>]
         ELSE [m |-> [withId EXCEPT !.RepoNamePrefix = d.map[<<"repo_name_prefix">>].v],
               diags |-> <<>>]

\* ImportState (lines 403-454, version 2 only) for the identifier id; model
\* is what the handler set in the response state, which Terraform keeps only
\* when no error is reported
ImportState(id, env) ==
    /\ TenantReady
    /\ tf.version = 2
    /\ tf.state = NoState
    /\ calls < MaxCalls
    /\ IF ImportRefused(id)
       THEN /\ tf' = [Handled("import", NoState, NoState, NoState,
                              <<"Unexpected Import Identifier">>)
                         EXCEPT !.importId = id]
            /\ UNCHANGED <<pc, client, limiter, now, wire, res, calls, sent, firstAt,
                           lastAt, doneAt, timeouts, callers, log>>
       ELSE \E order \in Orders(DOMAIN client.Headers) :
              LET idParts == SplitAtEveryComma(id)
                  tenantPath == idParts[1]
                  tenantName == idParts[2]
                  m == ImportedModel(tenantPath, tenantName, now)
                  requestPath == TenantReadPath(tenantPath, tenantName)
              IN
              \E out \in {SendOutcome(client, limiter, now, "GET", requestPath, "",
                                     env, order)} :
              \E dec \in {ImportDecoded(m, out.res.body)} :
              /\ Sent(out)
              /\ tf' =
                   IF out.res.ret # "returned"
                   THEN [Handled("import", NoState, m, NoState, <<>>)
                             EXCEPT !.panic = TRUE, !.importId = id]
                   ELSE IF out.res.err # NoErr
                   THEN [Handled("import", NoState, m, NoState,
                                 <<"Import request error">>)
                             EXCEPT !.importId = id]
                   ELSE [Handled("import", NoState, dec.m,
                                 IF dec.diags = <<>> THEN dec.m ELSE NoState, dec.diags)
                             EXCEPT !.importId = id]
    /\ UNCHANGED <<given, opt, newErr>>

-----------------------------------------------------------------------------
(* The tenant resource against an API server *)

TenantObject(id) ==
    << "{", "\"id\"", ":", id, ",", "\"identifier\"", ":", "\"t\"", ",",
       "\"repo_name_prefix\"", ":", "\"r\"", "}" >>

\* response bodies: the object, the object in an array, an array of two
\* objects, objects that lack fields or hold a number, an empty array, a
\* number, an array of a number, a broken text, an empty body
TenantBodies ==
    { TenantObject("\"6\""),
      <<"[">> \o TenantObject("\"6\"") \o <<"]">>,
      <<"[">> \o TenantObject("\"6\"") \o <<",">> \o TenantObject("\"7\"") \o <<"]">>,
      <<"{", "\"id\"", ":", "\"6\"", ",", "\"identifier\"", ":", "\"t\"", "}">>,
      <<"[", "{", "\"id\"", ":", "\"7\"", ",", "\"identifier\"", ":", "\"t\"", "}", "]">>,
      <<"{", "\"id\"", ":", "\"6\"", "}">>,
      TenantObject("1"),
      <<"{", "\"id\"", ":", "\"6\"", ",", "\"identifier\"", ":", "1", "}">>,
      <<"[", "]">>,
      <<"1">>,
      <<"[", "1", "]">>,
      <<"{">>,
      <<>> }

TenantAnswers ==
    { Response(200, b, TRUE) : b \in TenantBodies }
    \cup { Response(409, <<"\"6\"">>, TRUE), TransportError }

TenantPaths == { <<"/", "p">>, <<"/", "p", "/">> }

\* import identifiers: path and tenant, with a trailing slash, without path,
\* without tenant, without comma, with a comma in the tenant
ImportIds ==
    { <<"/", "p", ",", "t">>, <<"/", "p", "/", ",", "t">>, <<",", "t">>,
      <<"/", "p", ",">>, <<"/", "p">>, <<"/", "p", ",", "t", ",", "u">> }

InitTenant ==
    /\ InitClient(DefaultOpt)
    /\ OneByOne
    /\ \E version \in {1, 2} : tf = TenantResource(version)

NextTenant ==
    \/ NewAPIClient
    \/ \E path \in TenantPaths, do \in TenantAnswers :
         Create(path, "d", [oauth |-> "ok", do |-> do])
    \/ \E do \in TenantAnswers : Read([oauth |-> "ok", do |-> do])
    \/ \E data \in {"d", "e"} : Update(data)
    \/ Delete
    \/ \E id \in ImportIds, do \in TenantAnswers :
         ImportState(id, [oauth |-> "ok", do |-> do])

SpecTenant == InitTenant /\ [][NextTenant]_vars

\* the last handler decoded the body SendRequest returned to it
Extracted ==
    /\ tf.op \in {"create", "read"}
    /\ res.ret = "returned"
    /\ res.err = NoErr

\* the members of the object the fields of a body are looked up in: those of
\* the top-level object, or of the first element of a top-level array
FieldsOf(body) ==
    LET val == Unmarshal(body).val IN
    IF val.t = "object" THEN val.v ELSE val.v[1].v

\* the body decodes to an object, or to an array that starts with an object
HasContainer(body) ==
    LET d == Unmarshal(body) IN
    /\ d.ok
    /\ \/ d.val.t = "object"
       \/ d.val.t = "array" /\ Len(d.val.v) > 0 /\ d.val.v[1].t = "object"

\* the container of the body holds a string under name
HasString(body, name) ==
    /\ HasContainer(body)
    /\ name \in DOMAIN FieldsOf(body)
    /\ FieldsOf(body)[name].t = "string"

\* the fields update_computed_fields of the version in use asks for
RequiredFields ==
    IF tf.version = 1 THEN {<<"id">>, <<"identifier">>}
    ELSE {<<"id">>, <<"identifier">>, <<"repo_name_prefix">>}

\* C15: when the extraction succeeds, the id and the tenant of the model are
\* the strings under "id" and "identifier" in the top-level object of the
\* response, or in the first element when the response is an array; after a
\* successful Create they are the id and the tenant of the state.
C15_ExtractsFromObjectOrFirstElement ==
    (Extracted /\ ~tf.panic /\ tf.diags = <<>>) =>
        /\ HasString(res.body, <<"id">>)
        /\ HasString(res.body, <<"identifier">>)
        /\ tf.model.Id = FieldsOf(res.body)[<<"id">>].v
        /\ tf.model.Tenant = FieldsOf(res.body)[<<"identifier">>].v
        /\ tf.op = "create" =>
              /\ tf.state # NoState
              /\ tf.state.Id = tf.model.Id
              /\ tf.state.Tenant = tf.model.Tenant

\* a Create of version 1 answered with an array of two objects: the state
\* holds the id and the tenant of the first
C15_Witness ==
    /\ tf # NoTf
    /\ tf.version = 1
    /\ tf.op = "create"
    /\ res.err = NoErr
    /\ Len(res.body) > 15
    /\ res.body[1] = "["
    /\ tf.state # NoState
    /\ tf.state.Id = <<"6">>
    /\ tf.state.Tenant = <<"t">>

\* C16: for every malformed body (not JSON, neither an object nor an array
\* that starts with an object, a field missing or not a string) the
\* extraction ends with an error, without a panic, and leaves the id and the
\* tenant of the model as they were.
C16_MalformedBodyIsAnError ==
    ( /\ tf # NoTf
      /\ Extracted
      /\ \E name \in RequiredFields : ~HasString(res.body, name) ) =>
        /\ ~tf.panic
        /\ tf.diags # <<>>
        /\ tf.model.Id = tf.arg.Id
        /\ tf.model.Tenant = tf.arg.Tenant

\* C17: an import identifier is cut at its first comma: with a non-empty
\* path before it and a non-empty identifier after it (commas included) the
\* import sends one GET to <path>?identifier=<identifier>; otherwise it
\* reports an error and sends nothing.
C17_ImportSplitsAtFirstComma ==
    (tf # NoTf /\ tf.op = "import") =>
        LET id == tf.importId
            i == IndexComma(id, 1)
            path == SubSeq(id, 1, i - 1)
            identifier == SubSeq(id, i + 1, Len(id))
        IN IF i = 0 \/ path = <<>> \/ identifier = <<>>
           THEN /\ tf.diags = <<"Unexpected Import Identifier">>
                /\ calls = tf.callsBefore
           ELSE /\ calls = tf.callsBefore + 1
                /\ res.method = "GET"
                /\ res.path = TrimRight(path) \o <<"?identifier=">> \o identifier

\* C18: a Create whose request failed reports "Create request error", a
\* Create whose response lacks a required identifier field reports an error,
\* and neither writes state; state is written only after a successful
\* request whose response held the identifier fields.
C18_FailedCreateWritesNoState ==
    (tf # NoTf /\ tf.op = "create" /\ res.ret = "returned") =>
        /\ res.err # NoErr =>
              tf.diags = <<"Create request error">> /\ tf.state = NoState
        /\ (res.err = NoErr /\ \E name \in RequiredFields : ~HasString(res.body, name))
              => tf.diags # <<>> /\ tf.state = NoState
        /\ tf.state # NoState =>
              /\ res.err = NoErr
              /\ tf.diags = <<>>
              /\ \A name \in RequiredFields : HasString(res.body, name)

-----------------------------------------------------------------------------
(* The provider: Configure of internal/provider/provider.go, lines 507-620 *)

\* types.String: null, or a value
NullString == [null |-> TRUE, value |-> <<>>]
StringValue(v) == [null |-> FALSE, value |-> v]

\* no jwt_hashed_token block in the configuration
NoBlock == [nil |-> TRUE]
\* JwtHashedTokenModel; the secret is a types.String over compared strings
JwtBlock(claimsJson, secret, algorithm, minutes) ==
    [ ClaimsJson |-> claimsJson, Secret |-> secret, Algorithm |-> algorithm,
      ValidityDurationMinute |-> minutes ]

\* json.Unmarshal of claims_json into a map: the claims of the texts used
ClaimsOf == "{\"a\":7}" :> ("a" :> 7)

\* RestapiProviderModel
ProviderConfig(uri, testPath, timeout, jwt) ==
    [ URI |-> uri, TestPath |-> testPath, Timeout |-> timeout, JwtHashedToken |-> jwt ]

\* the provider before Configure, with its configuration and environment
Provider(config, environ) ==
    [ kind |-> "provider", config |-> config, environ |-> environ,
      phase |-> "unconfigured", diags |-> <<>>, panic |-> FALSE, data |-> "unset" ]

\* lines 515-519: the uri Configure checks
CheckedUri(config, environ) ==
    IF ~config.URI.null THEN config.URI.value ELSE environ.REST_API_URI

\* lines 564-568: the secret of the JWT block
JwtSecret(block, environ) ==
    IF ~block.Secret.null THEN block.Secret.value ELSE environ.REST_API_JWT_SECRET

\* lines 570-588: the errors the JWT block adds
JwtDiags(config, environ) ==
    IF config.JwtHashedToken = NoBlock THEN <<>>
    ELSE (IF JwtSecret(config.JwtHashedToken, environ) = ""
          THEN <<"The JWT secret is mandatory when jwt_hashed_token is defined">>
          ELSE <<>>)
         \o (IF config.JwtHashedToken.ClaimsJson \notin DOMAIN ClaimsOf
             THEN <<"The JWT claims can't be JSON decoded">>
             ELSE <<>>)

\* lines 548-596: the options Configure hands to NewAPIClient
ConfiguredOpt(config, environ) ==
    LET block == config.JwtHashedToken IN
    [ DefaultOpt EXCEPT
        !.Uri = config.URI.value,
        !.Timeout = config.Timeout,
        !.RateLimit = Rate(1, 1),
        !.Jwt = IF block = NoBlock THEN NoJwt
                ELSE [ Secret |-> JwtSecret(block, environ),
                       Algortithm |-> block.Algorithm,
                       Claims |-> IF block.ClaimsJson \in DOMAIN ClaimsOf
                                  THEN ClaimsOf[block.ClaimsJson] ELSE <<>>,
                       ValidityDurationMinute |-> 0 ] ]

\* Configure, with the answer env of the server to the test request
Configure(env) ==
    /\ pc = "new"
    /\ tf # NoTf
    /\ tf.kind = "provider"
    /\ tf.phase = "unconfigured"
    /\ LET config == tf.config
           o == ConfiguredOpt(config, tf.environ)
           n == NewAPIClientOutcome(o)
           diags == JwtDiags(config, tf.environ)
                    \o (IF n.err # "nil" THEN <<"API client creation fail">> ELSE <<>>)
           done == [tf EXCEPT !.phase = "configured"]
       IN
       IF CheckedUri(config, tf.environ) = <<>>
       THEN /\ tf' = [done EXCEPT !.diags = <<"The uri is mandatory">>]
            /\ pc' = "noclient"
            /\ UNCHANGED <<given, opt, client, newErr, limiter, now, wire, res, calls,
                           sent, firstAt, lastAt, doneAt, timeouts, callers, log>>
       ELSE /\ given' = o
            /\ opt' = n.opt
            /\ newErr' = n.err
            /\ IF config.TestPath = <<>>
               THEN /\ tf' = [done EXCEPT !.diags = diags,
                                 !.data = IF n.client = NoClient THEN "nil" ELSE "client"]
                    /\ pc' = n.pc
                    /\ client' = n.client
                    /\ limiter' = n.limiter
                    /\ UNCHANGED <<now, wire, res, calls, sent, firstAt, lastAt, doneAt,
                                   timeouts, callers, log>>
               ELSE IF n.client = NoClient
               THEN \* client.ReadMethod on the nil client
                    /\ tf' = [done EXCEPT !.diags = diags, !.panic = TRUE]
                    /\ pc' = "dead"
                    /\ client' = n.client
                    /\ limiter' = n.limiter
                    /\ UNCHANGED <<now, wire, res, calls, sent, firstAt, lastAt, doneAt,
                                   timeouts, callers, log>>
               ELSE \E order \in Orders(DOMAIN n.client.Headers) :
                      LET out == SendOutcome(n.client, n.limiter, now,
                                             n.client.ReadMethod, config.TestPath, "",
                                             env, order)
                      IN
                      /\ Sent(out)
                      /\ tf' = [done EXCEPT
                                  !.diags = diags \o
                                      (IF out.res.ret = "returned" /\ out.res.err # NoErr
                                       THEN <<"test_path send request fail">> ELSE <<>>),
                                  !.panic = out.res.ret # "returned",
                                  !.data = IF out.res.ret = "returned"
                                           THEN "client" ELSE "unset"]

\* a request of a resource through the client Configure stored, made only
\* when Configure reported no error
SendConfigured ==
    /\ tf # NoTf
    /\ tf.kind = "provider"
    /\ tf.phase = "configured"
    /\ tf.diags = <<>>
    /\ ~tf.panic
    /\ \E do \in {OkResponse, Response(404, <<"n">>, TRUE)} :
         SendRequest("GET", <<"/", "p">>, "", [oauth |-> "ok", do |-> do])

UriSettings == {NullString, StringValue(<<>>), StringValue(<<"h">>), StringValue(<<"h", "/">>)}

JwtBlocks ==
    { NoBlock,
      JwtBlock("{\"a\":7}", StringValue("secret"), "HS256", 0),
      JwtBlock("{\"a\":7}", StringValue("secret"), "HS256", 1),
      JwtBlock("{\"a\":7}", StringValue("secret"), "HS512", 2),
      JwtBlock("{\"a\":7}", [null |-> TRUE, value |-> ""], "HS256", 1),
      JwtBlock("{a", StringValue("secret"), "HS256", 0),
      JwtBlock("{\"a\":7}", StringValue("secret"), "", 0) }

ProviderConfigs ==
    { ProviderConfig(uri, testPath, timeout, jwt) :
        uri \in UriSettings, testPath \in {<<>>, <<"/", "t">>},
        timeout \in {2}, jwt \in JwtBlocks }

Environments ==
    { [REST_API_URI |-> u, REST_API_JWT_SECRET |-> js] :
        u \in {<<>>, <<"e">>, <<"e", "/">>}, js \in {"", "envsecret"} }

InitConfigure ==
    /\ InitClient(DefaultOpt)
    /\ OneByOne
    /\ \E config \in ProviderConfigs, environ \in Environments :
         tf = Provider(config, environ)

NextConfigure ==
    \/ \E do \in {OkResponse, Response(404, <<"n">>, TRUE), TransportError} :
         Configure([oauth |-> "ok", do |-> do])
    \/ SendConfigured

SpecConfigure == InitConfigure /\ [][NextConfigure]_vars

\* the diagnostics of Configure hold the error d
Reported(d) == \E i \in 1..Len(tf.diags) : tf.diags[i] = d

\* C19: when the jwt_hashed_token block sets validity_duration_minute to a
\* positive value, every request the configured client sends carries a token
\* whose claims hold nbf and iat at the signing time and exp at
\* iat + validity_duration_minute * 60.
C19_ValidityCompletesClaims ==
    ( /\ tf # NoTf
      /\ tf.kind = "provider"
      /\ tf.config.JwtHashedToken # NoBlock
      /\ tf.config.JwtHashedToken.ValidityDurationMinute > 0 ) =>
        \A i \in ApiRequests :
            LET claims == wire[i].header["Authorization"].tok.claims IN
            /\ {"nbf", "iat", "exp"} \subseteq DOMAIN claims
            /\ claims["nbf"] = claims["iat"]
            /\ claims["iat"] = lastAt \div TicksPerSec
            /\ claims["exp"] = claims["iat"]
                               + tf.config.JwtHashedToken.ValidityDurationMinute * 60

\* C20: with no uri in the configuration and a non-empty REST_API_URI,
\* Configure builds the client on the value of the variable and reports no
\* error about the uri or the client; "The uri is mandatory" is reported only
\* when the configuration and the variable are both empty.
C20_EnvironmentUriBuildsClient ==
    (tf # NoTf /\ tf.kind = "provider" /\ tf.phase = "configured") =>
        /\ (tf.config.URI.null /\ tf.environ.REST_API_URI # <<>>) =>
              /\ ~tf.panic
              /\ ~Reported("The uri is mandatory")
              /\ ~Reported("API client creation fail")
              /\ client # NoClient
              /\ client.Uri = TrimSuffix(tf.environ.REST_API_URI, Slash)
        /\ Reported("The uri is mandatory") =>
              /\ tf.config.URI.value = <<>>
              /\ tf.environ.REST_API_URI = <<>>

-----------------------------------------------------------------------------
(* SendRequest called by several goroutines on one client.  Each goroutine  *)
(* goes through the function in steps; what the steps share is the client   *)
(* (the claims map of client.Jwt among it) and the limiter, whose Wait is    *)
(* safe for concurrent use.                                                  *)

\* goroutines that call SendRequest on the client
NumCallers == 2

Callers == 1..NumCallers

\* a goroutine outside SendRequest
Idle == [pc |-> "idle", epoch |-> 0, tok |-> NoTok, wake |-> 0, granted |-> FALSE]

\* the other variables of the client stay as they are during a step
ClientKept == UNCHANGED <<pc, given, opt, newErr, wire, res, doneAt, timeouts, tf>>

\* lines 286-322: the goroutine g enters SendRequest, builds its request and,
\* with a JWT, enters completeClaimValidityTime, which reads the clock when
\* the validity is positive
Begin(g) ==
    /\ pc = "ready"
    /\ calls < MaxCalls
    /\ callers[g].pc = "idle"
    /\ calls' = calls + 1
    /\ callers' =
         [callers EXCEPT ![g] =
             IF client.Jwt = NoJwt THEN [Idle EXCEPT !.pc = "wait"]
             ELSE IF client.Jwt.ValidityDurationMinute > 0
             THEN [Idle EXCEPT !.pc = "nbf", !.epoch = now \div TicksPerSec]
             ELSE [Idle EXCEPT !.pc = "sign"]]
    /\ ClientKept
    /\ UNCHANGED <<client, limiter, now, sent, firstAt, lastAt, log>>

\* lines 358-364: Wait books the token under the mutex of the limiter and
\* sleeps until the token is earned; its error is dropped
Acquire(g) ==
    /\ pc = "ready"
    /\ callers[g].pc = "wait"
    /\ LET w == LimiterWait(limiter, now) IN
       /\ limiter' = w.lim
       /\ callers' = [callers EXCEPT ![g].pc = "sleep", ![g].wake = now + w.wait,
                                     ![g].granted = w.ok]
    /\ ClientKept
    /\ UNCHANGED <<client, now, calls, sent, firstAt, lastAt, log>>

\* line 366: the goroutine wakes up and hands its request to the HTTP client,
\* and returns when the server has answered
Dispatch(g) ==
    /\ pc = "ready"
    /\ callers[g].pc = "sleep"
    /\ callers[g].wake <= now
    /\ log' = Append(log, [at |-> now, granted |-> callers[g].granted,
                           tok |-> callers[g].tok, epoch |-> callers[g].epoch])
    /\ callers' = [callers EXCEPT ![g] = Idle]
    /\ sent' = sent + 1
    /\ firstAt' = IF firstAt < 0 THEN now ELSE firstAt
    /\ lastAt' = now
    /\ ClientKept
    /\ UNCHANGED <<client, limiter, now, calls>>

\* time passes, but not past the end of a sleep in Wait, and not while a
\* goroutine is about to call Wait (it could as well have begun later)
Elapse ==
    /\ \A g \in Callers :
          /\ callers[g].pc = "sleep" => callers[g].wake > now
          /\ callers[g].pc # "wait"
    /\ Tick

ConcurrentRates == {Rate(0, 1), Rate(1, 1), Rate(2, 1)}

InitConcurrent ==
    /\ \E r \in ConcurrentRates : InitClient([DefaultOpt EXCEPT !.RateLimit = r])
    /\ tf = NoTf
    /\ callers = [g \in Callers |-> Idle]
    /\ log = <<>>

NextConcurrent ==
    \/ NewAPIClient
    \/ \E g \in Callers : Begin(g)
    \/ \E g \in Callers : Acquire(g)
    \/ \E g \in Callers : Dispatch(g)
    \/ Elapse

SpecConcurrent == InitConcurrent /\ [][NextConcurrent]_vars

\* C21: whatever the number of goroutines calling SendRequest, the requests
\* dispatched in any interval of T seconds are at most B + R*T, with R the
\* configured rate and B = max(round(R), 1).
C21_DispatchesWithinRate ==
    LET R == given.RateLimit
        B == Max(Round(R), 1)
    IN \A i, j \in 1..Len(log) :
          i <= j =>
             (j - i + 1 - B) * TicksPerSec * R.den <= R.num * (log[j].at - log[i].at)

-----------------------------------------------------------------------------
(* The validity claims of the JWT in time *)

JwtTimedChoices ==
    { Jwt("HS256", "a" :> 7, 1),
      Jwt("HS256", ("a" :> 7) @@ ("nbf" :> 3) @@ ("iat" :> 4) @@ ("exp" :> 5), 1),
      Jwt("HS512", ("a" :> 7) @@ ("exp" :> 5), 2),
      Jwt("HS256", ("a" :> 7) @@ ("exp" :> 5), 0),
      Jwt("HS256", ("a" :> 7) @@ ("iat" :> 4), -1),
      Jwt("RS256", "a" :> 7, 1) }

JwtTimedOpts ==
    { [DefaultOpt EXCEPT !.Jwt = j, !.RateLimit = Rate(2, 1)] : j \in JwtTimedChoices }

InitJwt == \E o \in JwtTimedOpts : InitWith(o)

SendSigned == SendRequest("GET", <<"/", "p">>, "", OkEnv)

NextJwt == NewAPIClient \/ SendSigned \/ Tick

SpecJwt == InitJwt /\ [][NextJwt]_vars

\* the tokens signed for the API requests of the call that ends in this step
SignedTokens(w) ==
    { w[i].header["Authorization"].tok :
        i \in {k \in 1..Len(w) : w[k].kind = "api"
                                 /\ w[k].header["Authorization"].tok # NoTok} }

\* C22: with a positive validity the token signed by a call carries
\* nbf = iat = the epoch second at which the call signed and
\* exp = that second + 60 * validity, whatever nbf, iat and exp the configured
\* claims hold, next to the other configured claims; with a validity of zero
\* or less the signed claims are the configured claims.
C22_SignedClaimsCarryValidity ==
    [][ calls' = calls + 1 =>
          \A tok \in SignedTokens(wire') :
             LET epoch == now \div TicksPerSec
                 minutes == given.Jwt.ValidityDurationMinute
                 claims == given.Jwt.Claims
             IN IF minutes > 0
                THEN /\ DOMAIN tok.claims = DOMAIN claims \cup {"nbf", "iat", "exp"}
                     /\ tok.claims["nbf"] = epoch
                     /\ tok.claims["iat"] = epoch
                     /\ tok.claims["exp"] = epoch + minutes * 60
                     /\ \A k \in DOMAIN claims \ {"nbf", "iat", "exp"} :
                          tok.claims[k] = claims[k]
                ELSE tok.claims = claims ]_vars

\* a token signed in second 1 with a validity of one minute: the configured
\* nbf, iat and exp are replaced
C22_Witness ==
    /\ given.Jwt.ValidityDurationMinute = 1
    /\ "exp" \in DOMAIN given.Jwt.Claims
    /\ given.Jwt.Claims["exp"] = 5
    /\ \E tok \in SignedTokens(wire) :
         /\ tok.claims["nbf"] = 1
         /\ tok.claims["iat"] = 1
         /\ tok.claims["exp"] = 61
         /\ tok.claims["a"] = 7

\* C23: after any sequence of SendRequest calls the claims stored in the
\* client are the claims given at construction.
C23_StoredClaimsUnchanged ==
    (client # NoClient /\ client.Jwt # NoJwt) =>
        client.Jwt.Claims = given.Jwt.Claims

-----------------------------------------------------------------------------
(* Concurrent signings: completeClaimValidityTime and getSignedJwt work on  *)
(* the one claims map of client.Jwt, without a lock                          *)

\* jwt.Claims[k] = v
PutClaim(claims, k, v) ==
    [x \in DOMAIN claims \cup {k} |-> IF x = k THEN v ELSE claims[x]]

\* the goroutine is inside completeClaimValidityTime, before one of its writes
Writing(g) == callers[g].pc \in {"nbf", "iat", "exp"}

\* lines 99-101: one of the three assignments to the claims map
WriteClaim(g) ==
    /\ pc = "ready"
    /\ Writing(g)
    /\ LET k == callers[g].pc
           epoch == callers[g].epoch
           v == IF k = "exp" THEN epoch + client.Jwt.ValidityDurationMinute * 60
                ELSE epoch
       IN client' = [client EXCEPT !.Jwt.Claims = PutClaim(@, k, v)]
    /\ callers' = [callers EXCEPT ![g].pc =
                       CASE callers[g].pc = "nbf" -> "iat"
                         [] callers[g].pc = "iat" -> "exp"
                         [] OTHER -> "sign"]
    /\ UNCHANGED <<pc, given, opt, newErr, limiter, now, wire, res, calls, sent,
                   firstAt, lastAt, doneAt, timeouts, tf, log>>

\* lines 105-110 and 323-324: the token is signed over the claims map as it
\* is at that moment
Sign(g) ==
    /\ pc = "ready"
    /\ callers[g].pc = "sign"
    /\ callers' = [callers EXCEPT ![g].pc = "wait",
                                  ![g].tok = GetSignedJwt(client.Jwt)]
    /\ UNCHANGED <<pc, given, opt, client, newErr, limiter, now, wire, res, calls,
                   sent, firstAt, lastAt, doneAt, timeouts, tf, log>>

\* the Go runtime notices a map written by one goroutine while another
\* writes or reads it and ends the process ("concurrent map writes")
Throw ==
    /\ pc = "ready"
    /\ \E g, h \in Callers :
         /\ g # h
         /\ Writing(g)
         /\ Writing(h) \/ callers[h].pc = "sign"
    /\ pc' = "dead"
    /\ UNCHANGED <<given, opt, client, newErr, limiter, now, wire, res, calls, sent,
                   firstAt, lastAt, doneAt, timeouts, tf, callers, log>>

\* ticks of the clock followed while tokens are signed concurrently
SigningHorizon == 3

\* time passes while goroutines are at any place of SendRequest
ElapseSigning ==
    /\ now < SigningHorizon
    /\ Elapse

ConcurrentJwtChoices == { Jwt("HS256", "a" :> 7, 1), Jwt("HS256", "a" :> 7, 0) }

InitConcurrentJwt ==
    /\ \E j \in ConcurrentJwtChoices :
         InitClient([DefaultOpt EXCEPT !.Jwt = j, !.RateLimit = Rate(2, 1)])
    /\ tf = NoTf
    /\ callers = [g \in Callers |-> Idle]
    /\ log = <<>>

NextConcurrentJwt ==
    \/ NewAPIClient
    \/ \E g \in Callers : Begin(g)
    \/ \E g \in Callers : WriteClaim(g)
    \/ \E g \in Callers : Sign(g)
    \/ Throw
    \/ \E g \in Callers : Acquire(g)
    \/ \E g \in Callers : Dispatch(g)
    \/ ElapseSigning

SpecConcurrentJwt == InitConcurrentJwt /\ [][NextConcurrentJwt]_vars

\* C24: with a positive validity and several goroutines in SendRequest, no
\* two of them are writing the claims map at the same time, the process is
\* not ended by the runtime, and every token sent carries nbf = iat = the
\* second its goroutine read and exp = that second + 60 * validity.
C24_ConcurrentSigningsDoNotRace ==
    /\ \A g, h \in DOMAIN callers : (g # h /\ Writing(g)) => ~Writing(h)
    /\ pc # "dead"
    /\ \A i \in 1..Len(log) :
         (log[i].tok # NoTok /\ given.Jwt.ValidityDurationMinute > 0) =>
            /\ log[i].tok.claims["nbf"] = log[i].epoch
            /\ log[i].tok.claims["iat"] = log[i].epoch
            /\ log[i].tok.claims["exp"] =
                  log[i].epoch + given.Jwt.ValidityDurationMinute * 60

-----------------------------------------------------------------------------
(* OAuth2 with a token endpoint that is unreachable or rejects the grant *)

SendTokenDown ==
    \E data \in {"", "d"} :
        SendRequest("POST", <<"/", "p">>, data, [oauth |-> "fail", do |-> OkResponse])

NextTokenDown == NewAPIClient \/ SendTokenDown

SpecTokenDown == InitAuth /\ [][NextTokenDown]_vars

\* the requests to the token endpoint among those of the last call
TokenRequests == {i \in 1..Len(wire) : wire[i].kind = "token"}

\* C25: with OAuth2 configured and the token endpoint failing, every
\* SendRequest call returns an error and the empty string, puts no API request
\* on the network and leaves the limiter as it was; the token endpoint is
\* asked only when client id, client secret and token URL are all non-empty.
C25_TokenFailureStopsTheCall ==
    /\ (OauthGiven /\ res.ret # "none") =>
          /\ res.ret = "returned"
          /\ res.err # NoErr
          /\ res.body = <<>>
          /\ ApiRequests = {}
          /\ limiter = NewLimiter(given.RateLimit)
    /\ TokenRequests # {} => OauthGiven
    /\ (client # NoClient /\ ~OauthGiven) => client.OauthConfig = NoOauth

-----------------------------------------------------------------------------
(* The acquire of the limiter, checked under SpecRate *)

\* C26: when the acquire of the limiter fails or is cancelled, the call
\* returns a cancellation error and does not dispatch its request.
C26_FailedAcquireStopsTheRequest ==
    [][ ( /\ calls' = calls + 1
          /\ limiter # NoLimiter
          /\ ~LimiterWait(limiter, now).ok ) =>
            /\ res'.err = Err("cancelled")
            /\ \A i \in 1..Len(wire') : wire'[i].kind # "api" ]_vars

-----------------------------------------------------------------------------
(* Requests that cannot be built, and the other errors inside SendRequest *)

BuildOpts ==
    { [DefaultOpt EXCEPT !.Uri = u, !.Jwt = j, !.RateLimit = r] :
        u \in {<<"h">>, <<"h", "/">>},
        j \in {NoJwt, Jwt("RS256", "a" :> 7, 0)},
        r \in {Rate(0, 1), Rate(1, 1)} }

InitBuild == \E o \in BuildOpts : InitWith(o)

SendBuilt ==
    \E method \in {"GET", "BAD METHOD"}, path \in {<<"/", "p">>, <<"/", "%">>},
       do \in {OkResponse, TransportError} :
        SendRequest(method, path, "", [oauth |-> "ok", do |-> do])

NextBuild == NewAPIClient \/ SendBuilt

SpecBuild == InitBuild /\ [][NextBuild]_vars

\* C27: a call whose request cannot be built returns that error; no error
\* met inside SendRequest (building the request, signing the JWT, acquiring
\* the limiter) is dropped, and none ends the process.
C27_EveryErrorIsReturned ==
    res.ret # "none" =>
        /\ res.ret = "returned"
        /\ pc # "dead"
        /\ ~(ValidMethod(res.method) /\ ValidUrl(client.Uri \o res.path)) =>
              res.err = Err("request") /\ ApiRequests = {}
        /\ (given.Jwt # NoJwt /\ ~HmacAlgorithm(given.Jwt.Algortithm)) =>
              res.err # NoErr
        /\ (\E i \in ApiRequests : ~wire[i].granted) => res.err # NoErr

-----------------------------------------------------------------------------
(* Configuration errors, checked under SpecConfigure *)

\* the errors Configure records about the configuration
ConfigurationErrors ==
    { "The uri is mandatory",
      "The JWT secret is mandatory when jwt_hashed_token is defined",
      "The JWT claims can't be JSON decoded",
      "API client creation fail" }

\* C28: once Configure has recorded a configuration error (empty uri,
\* missing JWT secret, claims that are not JSON, NewAPIClient failing) it
\* sends no test request, calls no method on a nil client and hands no client
\* to the resources.
C28_ConfigurationErrorsAreTerminal ==
    ( /\ tf # NoTf
      /\ tf.kind = "provider"
      /\ tf.phase = "configured"
      /\ \E d \in ConfigurationErrors : Reported(d) ) =>
        /\ calls = 0
        /\ wire = <<>>
        /\ ~tf.panic
        /\ tf.data # "client"

-----------------------------------------------------------------------------
(* The life cycle of the managed object, checked under SpecTenant *)

\* C29: every Update and every Delete of a known object sends one request
\* to path + identifier (the update with the new body), and the state becomes
\* the updated object, or no object, only when that request succeeded.
C29_UpdateAndDeleteReachTheApi ==
    (tf # NoTf /\ tf.kind = "tenant" /\ tf.op \in {"update", "delete"}) =>
        /\ calls = tf.callsBefore + 1
        /\ ApiRequests # {}
        /\ res.path = TenantReadPath(tf.arg.Path, tf.arg.Tenant)
        /\ tf.op = "update" => res.data = tf.arg.Data
        /\ tf.state # tf.arg => res.err = NoErr

\* C30: a Read of a known object sends one GET to the path without its
\* trailing slashes followed by "?identifier=" and the stored tenant; when it
\* succeeds the state holds the id and the tenant of the response; when the
\* request fails or the response lacks the fields, Read reports an error and
\* the state is as it was.
C30_ReadRefreshesTheState ==
    (tf # NoTf /\ tf.kind = "tenant" /\ tf.op = "read") =>
        /\ calls = tf.callsBefore + 1
        /\ res.method = "GET"
        /\ res.path = TrimRight(tf.arg.Path) \o <<"?identifier=">> \o tf.arg.Tenant
        /\ IF res.err = NoErr /\ \A name \in RequiredFields : HasString(res.body, name)
           THEN /\ tf.diags = <<>>
                /\ tf.state # NoState
                /\ tf.state.Id = FieldsOf(res.body)[<<"id">>].v
                /\ tf.state.Tenant = FieldsOf(res.body)[<<"identifier">>].v
           ELSE /\ ~tf.panic
                /\ tf.diags # <<>>
                /\ tf.state = tf.arg

====
